---- MODULE Spec2Model ----
(***************************************************************************)
(* A model of the palm-backend service layer: the verification workflow,   *)
(* tasker skills, tasker profiles and ratings, category slugs and the      *)
(* tasker search query, each as operations over the relational store.      *)
(* Every database statement is one atomic step; a service method that      *)
(* issues several statements is several steps of one caller.               *)
(***************************************************************************)
EXTENDS Integers, Sequences, FiniteSets, TLC

(***************************************************************************)
(* Bounds of the model.                                                    *)
(***************************************************************************)
MaxLogs == 4
MaxSkills == 3
MaxTaskers == 3
MaxRatings == 3
MaxCategories == 3

\* the tasks a run creates at most
MaxTasks == 2

\* the rows the questions table and the FAQs table hold at most
\* when an update starts
MaxChildren == 4

VARIABLES
  verifications,     \* table verifications: sequence of rows, index = id
  verificationLogs,  \* table verification_logs: sequence of rows
  taskers,           \* table taskers: sequence of rows, index = id
  taskerSkills,      \* table tasker_skills: sequence of rows, index = id
  services,          \* table services: sequence of rows, index = id
  serviceCategories, \* table service_categories: sequence of rows, index = id
  taskerPortfolio,   \* table tasker_portfolio: sequence of rows, index = id
  tasks,             \* table tasks: sequence of rows, index = id
  taskQuestions,     \* table task_questions: sequence of rows, index = id
  taskFaqs,          \* table task_faqs: sequence of rows, index = id
  locations,         \* table locations: sequence of rows, index = id
  bookings,          \* table bookings: sequence of rows, index = id
  payments,          \* table payments: sequence of rows, index = id
  paymentMethods,    \* table payment_methods: sequence of rows, index = id
  refunds,           \* the refund requests the payment gateway has received
  pc,                \* per caller: position inside the service call it runs
  call,              \* per caller: arguments and what the call has read
  tx,                \* per caller: writes staged in the open transaction
  res,               \* per caller: outcome of the call that has finished
  ratingBase,        \* history: average and count of tasker 1 at the start
  ratingHistory      \* history: per tasker, the ratings updateRating has written

vars == <<verifications, verificationLogs, taskers, taskerSkills, services,
          serviceCategories, taskerPortfolio, tasks, taskQuestions, taskFaqs,
          locations, bookings,
          payments, paymentMethods, refunds, pc, call, tx, res,
          ratingBase, ratingHistory>>

history == <<ratingBase, ratingHistory>>

tables == <<verifications, verificationLogs, taskers, taskerSkills, services,
            serviceCategories, taskerPortfolio, tasks, taskQuestions, taskFaqs,
            locations, bookings,
            payments, paymentMethods, refunds>>

\* the tables no VerificationService statement touches
notVerificationTables == <<taskerSkills, services, serviceCategories,
                           taskerPortfolio, tasks, taskQuestions, taskFaqs,
                           locations, bookings,
                           payments, paymentMethods, refunds, history>>

verifVars == <<verifications, verificationLogs, pc, call, tx, res>>

(***************************************************************************)
(* Schema.                                                                 *)
(***************************************************************************)
verificationTypes == {"bvn", "nin", "id_card", "passport", "drivers_license"}

verificationStatuses == {"pending", "in_review", "verified", "rejected"}

\* a rational number n/d; d = 0 stands for SQL NULL
NullRat == [n |-> 0, d |-> 0]

\* a taskers row as the column defaults of the schema leave it
DefaultTasker(userId) ==
  [userId |-> userId, isActive |-> TRUE, averageRating |-> NullRat,
   totalReviews |-> 0, totalTasksCompleted |-> 0,
   backgroundChecked |-> FALSE, identityVerified |-> FALSE,
   isElite |-> FALSE, locationId |-> 0, headline |-> <<>>, bio |-> <<>>,
   responseTime |-> NullRat]

\* a services row: a name and its unique slug
ServiceRow(i) == [name |-> <<"Service", i>>, slug |-> <<"service", i>>]

\* the users table, which no modelled operation writes: users 1 and 2 exist
UserIds == {1, 2}

\* the user ids requests carry: the existing ones and one that does not exist
UserInputs == UserIds \cup {3}

\* the taskers and services tables before the first request
InitialTaskers == <<DefaultTasker(1)>>

InitialServices == <<ServiceRow(1), ServiceRow(2)>>

\* a locations row: a city and its coordinates in whole degrees, or NULL
\* coordinates
NullCoordinate == [set |-> FALSE, v |-> 0]

LocationRow(city, latitude, longitude) ==
  [city |-> city, latitude |-> latitude, longitude |-> longitude]

\* the locations table before the first request: location 1, which the
\* searched taskers refer to
InitialLocations ==
  <<LocationRow("Lagos", [set |-> TRUE, v |-> 6], [set |-> TRUE, v |-> 3])>>

\* the three task tables with no row
NoTaskRows == tasks = <<>> /\ taskQuestions = <<>> /\ taskFaqs = <<>>

\* no payment, no payment method, no refund requested
NoPaymentRows == payments = <<>> /\ paymentMethods = <<>> /\ refunds = <<>>

Procs == {1, 2}

\* the one caller of a run in which requests do not overlap
SeqProcs == {1}

\* the inputs tried: one type for each arm of the switch in updateStatus,
\* and the log status an operator writes by hand
CreateTypes == {"bvn", "nin", "passport"}

AddLogStatuses == {"verified"}

(***************************************************************************)
(* VerificationService                                                     *)
(***************************************************************************)
\* the transition table of validateStatusTransition, with a legal move out
\* of verified added
validTransitionsReopen(currentStatus) ==
  CASE currentStatus = "pending" -> {"in_review", "rejected"}
    [] currentStatus = "in_review" -> {"verified", "rejected"}
    [] currentStatus = "verified" -> {"pending"}
    [] currentStatus = "rejected" -> {"pending"}
    [] OTHER -> {}

validTransitions(currentStatus) ==
  CASE currentStatus = "pending" -> {"in_review", "rejected"}
    [] currentStatus = "in_review" -> {"verified", "rejected"}
    [] currentStatus = "verified" -> {}
    [] currentStatus = "rejected" -> {"pending"}
    [] OTHER -> {}

\* validateStatusTransition: TRUE when it throws
validateStatusTransitionThrows(currentStatus, newStatus) ==
  newStatus \notin validTransitions(currentStatus)

\* the AppError it throws
InvalidTransitionError(currentStatus, newStatus) ==
  [outcome |-> "error", code |-> 400,
   message |-> <<"Invalid status transition from", currentStatus, "to", newStatus>>]

OkResult == [outcome |-> "ok", code |-> 200, message |-> <<>>]

UndefinedResult == [outcome |-> "undefined", code |-> 200, message |-> <<>>]

NoResult == [outcome |-> "none", code |-> 0, message |-> <<>>]

AppError(msg, code) == [outcome |-> "error", code |-> code, message |-> <<msg>>]

\* a statement of the store failed inside or outside a transaction
StoreFailure == [outcome |-> "error", code |-> 500, message |-> <<"store failure">>]

NoCall == [op |-> "none", id |-> 0, status |-> "", read |-> ""]

NoTx == [status |-> "", logs |-> <<>>, flagTasker |-> 0]

\* a statement issued on the transaction handle, with no transaction around
\* it: the new table contents are committed at once
TxApplyAutocommit(committed, written) == written

\* what a statement issued on the handle of db.transaction does to the
\* committed table before the transaction commits: nothing
TxApply(committed, written) == committed

WithStatus(rows, id, status) == [rows EXCEPT ![id].status = status]

WithFlag(rows, taskerId) ==
  IF taskerId \in DOMAIN rows
    THEN [rows EXCEPT ![taskerId].identityVerified = TRUE]
    ELSE rows

LogRow(verificationId, status) == [verificationId |-> verificationId, status |-> status]

Idle == \A q \in Procs : pc[q] = "idle"

\* create: the three existence checks, then the transaction inserting the
\* row and its first log entry; txFails is the store failing inside it
VerificationCreate(p, taskerId, userId, type, txFails) ==
  /\ pc[p] = "idle"
  /\ UNCHANGED notVerificationTables
  /\ Len(verificationLogs) < MaxLogs
  /\ pc' = [pc EXCEPT ![p] = "done"]
  /\ UNCHANGED <<taskers, call, tx>>
  /\ IF taskerId \notin DOMAIN taskers
       THEN /\ res' = [res EXCEPT ![p] = AppError("Tasker not found", 404)]
            /\ UNCHANGED <<verifications, verificationLogs>>
     ELSE IF userId \notin UserIds
       THEN /\ res' = [res EXCEPT ![p] = AppError("User not found", 404)]
            /\ UNCHANGED <<verifications, verificationLogs>>
     ELSE IF \E i \in DOMAIN verifications :
                /\ verifications[i].taskerId = taskerId
                /\ verifications[i].type = type
                /\ verifications[i].status \in {"pending", "in_review"}
       THEN /\ res' = [res EXCEPT ![p] =
                          AppError("verification is already in progress", 400)]
            /\ UNCHANGED <<verifications, verificationLogs>>
     ELSE IF txFails
       THEN /\ res' = [res EXCEPT ![p] = StoreFailure]
            /\ UNCHANGED <<verifications, verificationLogs>>
     ELSE /\ verifications' = Append(verifications,
                [taskerId |-> taskerId, type |-> type, status |-> "pending"])
          /\ verificationLogs' = Append(verificationLogs,
                LogRow(Len(verifications) + 1, "pending"))
          /\ res' = [res EXCEPT ![p] = OkResult]

\* addLog: one insert after an existence check
VerificationAddLog(p, verificationId, status) ==
  /\ pc[p] = "idle"
  /\ UNCHANGED notVerificationTables
  /\ Len(verificationLogs) < MaxLogs
  /\ pc' = [pc EXCEPT ![p] = "done"]
  /\ UNCHANGED <<verifications, taskers, call, tx>>
  /\ IF verificationId \notin DOMAIN verifications
       THEN /\ res' = [res EXCEPT ![p] = AppError("Verification not found", 404)]
            /\ UNCHANGED verificationLogs
       ELSE /\ verificationLogs' = Append(verificationLogs, LogRow(verificationId, status))
            /\ res' = [res EXCEPT ![p] = OkResult]

\* updateStatus is entered with its arguments
UpdateStatusCall(p, id, status) ==
  /\ pc[p] = "idle"
  /\ UNCHANGED notVerificationTables
  /\ Len(verificationLogs) < MaxLogs
  /\ pc' = [pc EXCEPT ![p] = "findById"]
  /\ call' = [call EXCEPT ![p] =
                 [op |-> "updateStatus", id |-> id, status |-> status, read |-> ""]]
  /\ UNCHANGED <<verifications, verificationLogs, taskers, tx, res>>

\* findById, the early return and validateStatusTransition
UpdateStatusFindById(p) ==
  /\ pc[p] = "findById"
  /\ UNCHANGED notVerificationTables
  /\ UNCHANGED <<verifications, verificationLogs, taskers, tx>>
  /\ IF call[p].id \notin DOMAIN verifications
       THEN /\ res' = [res EXCEPT ![p] = UndefinedResult]
            /\ pc' = [pc EXCEPT ![p] = "done"]
            /\ UNCHANGED call
     ELSE LET cur == verifications[call[p].id].status IN
          /\ call' = [call EXCEPT ![p].read = cur]
          /\ IF validateStatusTransitionThrows(cur, call[p].status)
               THEN /\ res' = [res EXCEPT ![p] =
                                  InvalidTransitionError(cur, call[p].status)]
                    /\ pc' = [pc EXCEPT ![p] = "done"]
               ELSE /\ pc' = [pc EXCEPT ![p] = "txUpdate"]
                    /\ UNCHANGED res

\* a statement of the transaction throws: the transaction rolls back and the
\* error propagates
UpdateStatusTxFail(p) ==
  /\ pc[p] \in {"txUpdate", "txLog", "txTasker", "txCommit"}
  /\ UNCHANGED notVerificationTables
  /\ pc' = [pc EXCEPT ![p] = "done"]
  /\ tx' = [tx EXCEPT ![p] = NoTx]
  /\ res' = [res EXCEPT ![p] = StoreFailure]
  /\ UNCHANGED <<verifications, verificationLogs, taskers, call>>

\* tx.update(verifications).set({status, ...})
UpdateStatusTxUpdate(p) ==
  /\ pc[p] = "txUpdate"
  /\ UNCHANGED notVerificationTables
  /\ call[p].id \in DOMAIN verifications
  /\ tx' = [tx EXCEPT ![p].status = call[p].status]
  /\ verifications' = TxApply(verifications,
                         WithStatus(verifications, call[p].id, call[p].status))
  /\ pc' = [pc EXCEPT ![p] = "txLog"]
  /\ UNCHANGED <<verificationLogs, taskers, call, res>>

\* tx.insert(verificationLogs)
UpdateStatusTxLog(p) ==
  /\ pc[p] = "txLog"
  /\ UNCHANGED notVerificationTables
  /\ tx' = [tx EXCEPT ![p].logs = <<LogRow(call[p].id, call[p].status)>>]
  /\ verificationLogs' = TxApply(verificationLogs,
                            Append(verificationLogs, LogRow(call[p].id, call[p].status)))
  /\ pc' = [pc EXCEPT ![p] =
               IF call[p].status = "verified" THEN "txTasker" ELSE "txCommit"]
  /\ UNCHANGED <<verifications, taskers, call, res>>

\* the switch on verification.type: every validated type sets identityVerified
UpdateStatusTxTasker(p) ==
  /\ pc[p] = "txTasker"
  /\ UNCHANGED notVerificationTables
  /\ LET v == verifications[call[p].id] IN
       IF v.type \in verificationTypes
         THEN /\ tx' = [tx EXCEPT ![p].flagTasker = v.taskerId]
              /\ taskers' = TxApply(taskers, WithFlag(taskers, v.taskerId))
         ELSE UNCHANGED <<tx, taskers>>
  /\ pc' = [pc EXCEPT ![p] = "txCommit"]
  /\ UNCHANGED <<verifications, verificationLogs, call, res>>

\* the callback returns: the staged writes commit together
UpdateStatusTxCommit(p) ==
  /\ pc[p] = "txCommit"
  /\ UNCHANGED notVerificationTables
  /\ verifications' = WithStatus(verifications, call[p].id, tx[p].status)
  /\ verificationLogs' = verificationLogs \o tx[p].logs
  /\ taskers' = IF tx[p].flagTasker = 0 THEN taskers
                ELSE WithFlag(taskers, tx[p].flagTasker)
  /\ tx' = [tx EXCEPT ![p] = NoTx]
  /\ pc' = [pc EXCEPT ![p] = "done"]
  /\ res' = [res EXCEPT ![p] = OkResult]
  /\ UNCHANGED call

\* the caller has taken the outcome of its call
Return(p) ==
  /\ pc[p] = "done"
  /\ pc' = [pc EXCEPT ![p] = "idle"]
  /\ call' = [call EXCEPT ![p] = NoCall]
  /\ res' = [res EXCEPT ![p] = NoResult]
  /\ UNCHANGED <<tables, tx, history>>

\* TaskerService.update clearing the flag (a profile edit by an admin)
TaskerClearIdentityVerified(taskerId) ==
  /\ taskerId \in DOMAIN taskers
  /\ taskers[taskerId].identityVerified
  /\ taskers' = [taskers EXCEPT ![taskerId].identityVerified = FALSE]
  /\ UNCHANGED <<verifVars, notVerificationTables>>

InitVerification ==
  /\ verifications = <<>>
  /\ verificationLogs = <<>>
  /\ taskers = InitialTaskers
  /\ pc = [p \in Procs |-> "idle"]
  /\ call = [p \in Procs |-> NoCall]
  /\ tx = [p \in Procs |-> NoTx]
  /\ res = [p \in Procs |-> NoResult]
  /\ ratingBase = [a |-> NullRat, c |-> 0]
  /\ ratingHistory = [i \in 1..MaxTaskers |-> <<>>]
  /\ taskerSkills = <<>>
  /\ services = InitialServices
  /\ serviceCategories = <<>>
  /\ taskerPortfolio = <<>>
  /\ NoTaskRows
  /\ locations = InitialLocations
  /\ bookings = <<>>
  /\ NoPaymentRows

\* calls do not overlap: a call starts only when no other call is in flight
NextVerificationSeq ==
  \/ /\ Idle
     /\ \E p \in SeqProcs :
          \/ \E t \in 1..(Len(taskers) + 1), u \in UserInputs,
                ty \in CreateTypes, f \in BOOLEAN :
               VerificationCreate(p, t, u, ty, f)
          \/ \E id \in 1..MaxLogs, s \in AddLogStatuses :
               VerificationAddLog(p, id, s)
          \/ \E id \in 1..MaxLogs, s \in verificationStatuses :
               UpdateStatusCall(p, id, s)
  \/ /\ Idle
     /\ \E t \in DOMAIN taskers : TaskerClearIdentityVerified(t)
  \/ \E p \in SeqProcs :
       \/ UpdateStatusFindById(p)
       \/ UpdateStatusTxFail(p)
       \/ UpdateStatusTxUpdate(p)
       \/ UpdateStatusTxLog(p)
       \/ UpdateStatusTxTasker(p)
       \/ UpdateStatusTxCommit(p)
       \/ Return(p)

SpecVerificationSeq == InitVerification /\ [][NextVerificationSeq]_vars

(***************************************************************************)
(* Properties of the verification workflow.                                *)
(***************************************************************************)
AllowedChanges ==
  {<<"pending", "in_review">>, <<"pending", "rejected">>,
   <<"in_review", "verified">>, <<"in_review", "rejected">>,
   <<"rejected", "pending">>}

InTransaction(p) == pc[p] \in {"txUpdate", "txLog", "txTasker", "txCommit"}

\* C1: in a sequential run every change of a stored verification status is
\* one of the five allowed changes, and an updateStatus asking for any other
\* change of an existing verification ends in an error whose message names
\* the current and the requested status, with the verification rows, the
\* log and the tasker rows as they were.
C1_OnlyAllowedTransitions ==
  [][/\ \A id \in DOMAIN verifications :
          verifications'[id].status # verifications[id].status
            => <<verifications[id].status, verifications'[id].status>> \in AllowedChanges
     /\ \A p \in Procs :
          (/\ pc[p] = "findById"
           /\ pc'[p] # "findById"
           /\ call[p].id \in DOMAIN verifications
           /\ <<verifications[call[p].id].status, call[p].status>> \notin AllowedChanges)
            => /\ pc'[p] = "done"
               /\ res'[p].outcome = "error"
               /\ res'[p].message[2] = verifications[call[p].id].status
               /\ res'[p].message[4] = call[p].status
               /\ UNCHANGED <<verifications, verificationLogs, taskers>>]_vars

\* a change out of verified has been asked for and refused
C1_Witness ==
  \E p \in Procs :
    /\ pc[p] = "done"
    /\ call[p].id \in DOMAIN verifications
    /\ verifications[call[p].id].status = "verified"
    /\ res[p] = InvalidTransitionError("verified", call[p].status)

\* C2: every step of an updateStatus call that moves a verification to
\* verified either leaves the three tables as they are (also when a
\* statement fails) or commits the new status, the log entry with status
\* verified and identityVerified = TRUE of the tasker together; and a
\* verification never becomes verified in a step that does not also add
\* that log entry and set that flag.
C2_VerifiedWritesAtomic ==
  [][/\ \A p \in Procs :
          (InTransaction(p) /\ call[p].status = "verified")
            => \/ UNCHANGED <<verifications, verificationLogs, taskers>>
               \/ /\ pc'[p] = "done"
                  /\ res'[p] = OkResult
                  /\ verifications' = WithStatus(verifications, call[p].id, "verified")
                  /\ verificationLogs' =
                       Append(verificationLogs, LogRow(call[p].id, "verified"))
                  /\ taskers'[verifications[call[p].id].taskerId].identityVerified
     /\ \A id \in DOMAIN verifications :
          (verifications'[id].status = "verified" /\ verifications[id].status # "verified")
            => /\ Len(verificationLogs') = Len(verificationLogs) + 1
               /\ verificationLogs'[Len(verificationLogs')] = LogRow(id, "verified")
               /\ taskers'[verifications[id].taskerId].identityVerified]_vars

\* a transaction has committed the move to verified for a tasker whose flag
\* it had to set
C2_Witness ==
  \E p \in Procs :
    /\ pc[p] = "done"
    /\ res[p] = OkResult
    /\ call[p].op = "updateStatus"
    /\ call[p].status = "verified"
    /\ verifications[call[p].id].status = "verified"
    /\ taskers[verifications[call[p].id].taskerId].identityVerified

(***************************************************************************)
(* TaskerService: skills                                                   *)
(***************************************************************************)
\* the tables no skill statement touches
notSkillTables == <<verifications, verificationLogs, taskers, services,
                    serviceCategories, taskerPortfolio, tasks, taskQuestions,
                    taskFaqs, locations, bookings,
                    payments, paymentMethods, refunds, history>>

\* an optional boolean of a request body: "unset", "true" or "false"
OrDefault(opt, default) == IF opt = "unset" THEN default ELSE opt = "true"

\* the request bodies tried for addSkill (isActive is an accepted key)
SkillDataInputs ==
  {[serviceId |-> s, hourlyRate |-> d[1], quickPitch |-> d[2], isActive |-> d[3]] :
     s \in DOMAIN InitialServices,
     d \in {<<10, "a", "unset">>, <<20, "b", "false">>}}

\* the request bodies tried for updateSkill; hourlyRate -1 is an absent key
SkillPatchInputs ==
  {[hourlyRate |-> 30, isActive |-> "unset"],
   [hourlyRate |-> -1, isActive |-> "true"],
   [hourlyRate |-> -1, isActive |-> "false"]}

SkillsOfPair(taskerId, serviceId) ==
  {i \in DOMAIN taskerSkills :
     /\ taskerSkills[i].taskerId = taskerId
     /\ taskerSkills[i].serviceId = serviceId}

InsertsInFlight ==
  Cardinality({q \in Procs : pc[q] = "addSkillWrite" /\ call[q].existing = 0})

\* addSkill, first statement: select ... where taskerId and serviceId limit 1.
\* Without ORDER BY the row returned is any of the matching rows.
AddSkillSelect(p, taskerId, skillData) ==
  /\ pc[p] = "idle"
  /\ Len(taskerSkills) + InsertsInFlight < MaxSkills
  /\ \E e \in (IF SkillsOfPair(taskerId, skillData.serviceId) = {}
                 THEN {0} ELSE SkillsOfPair(taskerId, skillData.serviceId)) :
       call' = [call EXCEPT ![p] =
                  [op |-> "addSkill", taskerId |-> taskerId, data |-> skillData,
                   existing |-> e,
                   existingActive |-> IF e = 0 THEN FALSE ELSE taskerSkills[e].isActive]]
  /\ pc' = [pc EXCEPT ![p] = "addSkillWrite"]
  /\ UNCHANGED <<tables, tx, res, history>>

\* addSkill, second statement: reactivate the row read, throw, or insert
AddSkillWrite(p) ==
  /\ pc[p] = "addSkillWrite"
  /\ pc' = [pc EXCEPT ![p] = "done"]
  /\ UNCHANGED <<notSkillTables, call, tx>>
  /\ IF call[p].existing # 0
       THEN IF ~call[p].existingActive
              THEN /\ taskerSkills' =
                        [taskerSkills EXCEPT ![call[p].existing] =
                           [@ EXCEPT !.hourlyRate = call[p].data.hourlyRate,
                                     !.quickPitch = call[p].data.quickPitch,
                                     !.isActive = TRUE]]
                   /\ res' = [res EXCEPT ![p] = OkResult]
              ELSE /\ res' = [res EXCEPT ![p] =
                                AppError("Tasker already has this skill", 400)]
                   /\ UNCHANGED taskerSkills
       ELSE /\ taskerSkills' = Append(taskerSkills,
                 [taskerId |-> call[p].taskerId,
                  serviceId |-> call[p].data.serviceId,
                  hourlyRate |-> call[p].data.hourlyRate,
                  quickPitch |-> call[p].data.quickPitch,
                  isActive |-> OrDefault(call[p].data.isActive, TRUE)])
            /\ res' = [res EXCEPT ![p] = OkResult]

\* updateSkill: one update ... where id and taskerId returning
UpdateSkill(p, taskerId, skillId, data) ==
  /\ pc[p] = "idle"
  /\ pc' = [pc EXCEPT ![p] = "done"]
  /\ call' = [call EXCEPT ![p] = [op |-> "updateSkill", id |-> skillId]]
  /\ UNCHANGED <<notSkillTables, tx>>
  /\ IF skillId \in DOMAIN taskerSkills /\ taskerSkills[skillId].taskerId = taskerId
       THEN /\ taskerSkills' =
                 [taskerSkills EXCEPT ![skillId] =
                    [@ EXCEPT !.hourlyRate =
                                IF data.hourlyRate = -1 THEN @ ELSE data.hourlyRate,
                              !.isActive = OrDefault(data.isActive, @)]]
            /\ res' = [res EXCEPT ![p] = OkResult]
       ELSE /\ UNCHANGED taskerSkills
            /\ res' = [res EXCEPT ![p] = UndefinedResult]

\* removeSkill: the soft delete, one update ... returning
RemoveSkill(p, taskerId, skillId) ==
  /\ pc[p] = "idle"
  /\ pc' = [pc EXCEPT ![p] = "done"]
  /\ call' = [call EXCEPT ![p] = [op |-> "removeSkill", id |-> skillId]]
  /\ UNCHANGED <<notSkillTables, tx>>
  /\ IF skillId \in DOMAIN taskerSkills /\ taskerSkills[skillId].taskerId = taskerId
       THEN /\ taskerSkills' = [taskerSkills EXCEPT ![skillId].isActive = FALSE]
            /\ res' = [res EXCEPT ![p] = OkResult]
       ELSE /\ UNCHANGED taskerSkills
            /\ res' = [res EXCEPT ![p] = UndefinedResult]

InitSkills ==
  /\ verifications = <<>>
  /\ verificationLogs = <<>>
  /\ taskers = InitialTaskers
  /\ taskerSkills = <<>>
  /\ services = InitialServices
  /\ serviceCategories = <<>>
  /\ taskerPortfolio = <<>>
  /\ NoTaskRows
  /\ locations = InitialLocations
  /\ bookings = <<>>
  /\ NoPaymentRows
  /\ pc = [p \in Procs |-> "idle"]
  /\ call = [p \in Procs |-> NoCall]
  /\ tx = [p \in Procs |-> NoTx]
  /\ res = [p \in Procs |-> NoResult]
  /\ ratingBase = [a |-> NullRat, c |-> 0]
  /\ ratingHistory = [i \in 1..MaxTaskers |-> <<>>]

\* requests handled one after the other
NextSkillsSeq ==
  \/ /\ Idle
     /\ \E p \in SeqProcs, t \in DOMAIN taskers :
          \/ \E d \in SkillDataInputs : AddSkillSelect(p, t, d)
          \/ \E id \in 1..MaxSkills, d \in SkillPatchInputs : UpdateSkill(p, t, id, d)
          \/ \E id \in 1..MaxSkills : RemoveSkill(p, t, id)
  \/ \E p \in SeqProcs :
       \/ AddSkillWrite(p)
       \/ Return(p)

SpecSkillsSeq == InitSkills /\ [][NextSkillsSeq]_vars

\* requests overlapping in time: each statement is a step of its request
NextSkills ==
  \E p \in Procs :
    \/ \E t \in DOMAIN taskers, d \in SkillDataInputs : AddSkillSelect(p, t, d)
    \/ \E t \in DOMAIN taskers, id \in 1..MaxSkills, d \in SkillPatchInputs :
         UpdateSkill(p, t, id, d)
    \/ \E t \in DOMAIN taskers, id \in 1..MaxSkills : RemoveSkill(p, t, id)
    \/ AddSkillWrite(p)
    \/ Return(p)

SpecSkills == InitSkills /\ [][NextSkills]_vars

\* C3: in every reachable state, overlapping addSkill calls included, there
\* is at most one row with isActive = TRUE for any (taskerId, serviceId).
C3_AtMostOneActiveSkill ==
  \A i, j \in DOMAIN taskerSkills :
    (/\ i # j
     /\ taskerSkills[i].taskerId = taskerSkills[j].taskerId
     /\ taskerSkills[i].serviceId = taskerSkills[j].serviceId)
      => ~(taskerSkills[i].isActive /\ taskerSkills[j].isActive)

\* C4: the write of addSkill updates the soft-deleted row of the pair in
\* place to active with the supplied rate and details and inserts nothing;
\* throws the 400 conflict and changes nothing when the row is active; and
\* inserts exactly one active row when the pair has no row.
C4_AddSkillOutcome ==
  [][\A p \in Procs :
       (pc[p] = "addSkillWrite" /\ pc'[p] # "addSkillWrite")
         => LET rows == SkillsOfPair(call[p].taskerId, call[p].data.serviceId) IN
            IF rows = {}
              THEN /\ Len(taskerSkills') = Len(taskerSkills) + 1
                   /\ SubSeq(taskerSkills', 1, Len(taskerSkills)) = taskerSkills
                   /\ taskerSkills'[Len(taskerSkills')].taskerId = call[p].taskerId
                   /\ taskerSkills'[Len(taskerSkills')].serviceId = call[p].data.serviceId
                   /\ taskerSkills'[Len(taskerSkills')].isActive
            ELSE IF \E i \in rows : ~taskerSkills[i].isActive
              THEN \E i \in rows :
                     /\ ~taskerSkills[i].isActive
                     /\ taskerSkills' =
                          [taskerSkills EXCEPT ![i] =
                             [@ EXCEPT !.hourlyRate = call[p].data.hourlyRate,
                                       !.quickPitch = call[p].data.quickPitch,
                                       !.isActive = TRUE]]
            ELSE /\ res'[p].outcome = "error"
                 /\ res'[p].code = 400
                 /\ UNCHANGED taskerSkills]_vars

(***************************************************************************)
(* TaskerService: profiles and ratings                                     *)
(***************************************************************************)
\* the tables no tasker statement touches
notTaskerTables == <<verifications, verificationLogs, taskerSkills, services,
                     serviceCategories, taskerPortfolio, tasks, taskQuestions,
                     taskFaqs, locations, bookings,
                     payments, paymentMethods, refunds>>

RECURSIVE GCD(_, _)
GCD(a, b) == IF b = 0 THEN a ELSE GCD(b, a % b)

\* a non-negative rational in lowest terms
Rat(n, d) == [n |-> n \div GCD(n, d), d |-> d \div GCD(n, d)]

\* JavaScript's value || 0 on a nullable number
OrZero(r) == IF r.d = 0 THEN [n |-> 0, d |-> 1] ELSE r

RatTimesInt(r, k) == Rat(r.n * k, r.d)

RatPlus(r, q) == Rat(r.n * q.d + q.n * r.d, r.d * q.d)

RECURSIVE RatSum(_)
RatSum(seq) ==
  IF seq = <<>> THEN [n |-> 0, d |-> 1] ELSE RatPlus(seq[1], RatSum(Tail(seq)))

\* the rolling average with the new count used in place of the old one
NewRatingOffByOne(currentRating, totalReviews, rating) ==
  Rat(currentRating.n * totalReviews * rating.d + rating.n * currentRating.d,
      currentRating.d * rating.d * totalReviews)

\* (currentRating * (totalReviews - 1) + rating) / totalReviews, the double
\* arithmetic taken as exact
NewRating(currentRating, totalReviews, rating) ==
  Rat(currentRating.n * (totalReviews - 1) * rating.d + rating.n * currentRating.d,
      currentRating.d * rating.d * totalReviews)

\* the ratings submitted: 5.0 and 3.5
RatingInputs == {[n |-> 5, d |-> 1], [n |-> 7, d |-> 2]}

\* average and count of the tasker that exists at the start
InitialRatings ==
  {[a |-> NullRat, c |-> 0], [a |-> [n |-> 4, d |-> 1], c |-> 3],
   [a |-> [n |-> 0, d |-> 1], c |-> 0]}

RatingsInFlight == Cardinality({q \in Procs : pc[q] = "updateRatingWrite"})

RatingsWritten ==
  LET RECURSIVE Total(_)
      Total(i) == IF i = 0 THEN 0 ELSE Len(ratingHistory[i]) + Total(i - 1)
  IN Total(MaxTaskers)

CreatesInFlight == Cardinality({q \in Procs : pc[q] = "createInsert"})

\* create, first statement: select ... where userId limit 1
TaskerCreateSelect(p, userId) ==
  /\ pc[p] = "idle"
  /\ Len(taskers) + CreatesInFlight < MaxTaskers
  /\ call' = [call EXCEPT ![p] =
                [op |-> "create", userId |-> userId,
                 existing |-> \E i \in DOMAIN taskers : taskers[i].userId = userId]]
  /\ pc' = [pc EXCEPT ![p] = "createInsert"]
  /\ UNCHANGED <<tables, tx, res, history>>

\* create, the throw or the insert; the foreign key to users can reject it
TaskerCreateInsert(p) ==
  /\ pc[p] = "createInsert"
  /\ pc' = [pc EXCEPT ![p] = "done"]
  /\ UNCHANGED <<notTaskerTables, call, tx, history>>
  /\ IF call[p].existing
       THEN /\ res' = [res EXCEPT ![p] =
                         AppError("User already has a tasker profile", 400)]
            /\ UNCHANGED taskers
     ELSE IF call[p].userId \notin UserIds
       THEN /\ res' = [res EXCEPT ![p] = StoreFailure]
            /\ UNCHANGED taskers
     ELSE /\ taskers' = Append(taskers, DefaultTasker(call[p].userId))
          /\ res' = [res EXCEPT ![p] = OkResult]

\* updateRating, findById and the early return
UpdateRatingFindById(p, id, rating) ==
  /\ pc[p] = "idle"
  /\ RatingsWritten + RatingsInFlight < MaxRatings
  /\ UNCHANGED <<tables, tx, history>>
  /\ IF id \notin DOMAIN taskers
       THEN /\ pc' = [pc EXCEPT ![p] = "done"]
            /\ call' = [call EXCEPT ![p] = [op |-> "updateRating", id |-> id]]
            /\ res' = [res EXCEPT ![p] = UndefinedResult]
       ELSE /\ pc' = [pc EXCEPT ![p] = "updateRatingWrite"]
            /\ call' = [call EXCEPT ![p] =
                          [op |-> "updateRating", id |-> id, rating |-> rating,
                           totalReviews |-> taskers[id].totalReviews,
                           averageRating |-> taskers[id].averageRating]]
            /\ UNCHANGED res

\* updateRating, the arithmetic on what was read and the update statement
UpdateRatingWrite(p) ==
  /\ pc[p] = "updateRatingWrite"
  /\ pc' = [pc EXCEPT ![p] = "done"]
  /\ LET totalReviews == call[p].totalReviews + 1
         currentRating == OrZero(call[p].averageRating)
     IN taskers' = [taskers EXCEPT ![call[p].id] =
                      [@ EXCEPT !.averageRating =
                                  NewRating(currentRating, totalReviews, call[p].rating),
                                !.totalReviews = totalReviews]]
  /\ ratingHistory' = [ratingHistory EXCEPT ![call[p].id] = Append(@, call[p].rating)]
  /\ res' = [res EXCEPT ![p] = OkResult]
  /\ UNCHANGED <<notTaskerTables, call, tx, ratingBase>>

InitTaskers ==
  /\ verifications = <<>>
  /\ verificationLogs = <<>>
  /\ taskerSkills = <<>>
  /\ services = InitialServices
  /\ serviceCategories = <<>>
  /\ taskerPortfolio = <<>>
  /\ NoTaskRows
  /\ locations = InitialLocations
  /\ bookings = <<>>
  /\ NoPaymentRows
  /\ pc = [p \in Procs |-> "idle"]
  /\ call = [p \in Procs |-> NoCall]
  /\ tx = [p \in Procs |-> NoTx]
  /\ res = [p \in Procs |-> NoResult]
  /\ ratingBase \in InitialRatings
  /\ ratingHistory = [i \in 1..MaxTaskers |-> <<>>]
  /\ taskers = <<[DefaultTasker(1) EXCEPT !.averageRating = ratingBase.a,
                                          !.totalReviews = ratingBase.c]>>

\* requests handled one after the other
NextTaskersSeq ==
  \/ /\ Idle
     /\ \E p \in SeqProcs :
          \/ \E u \in UserInputs : TaskerCreateSelect(p, u)
          \/ \E id \in 1..MaxTaskers, r \in RatingInputs : UpdateRatingFindById(p, id, r)
  \/ \E p \in SeqProcs :
       \/ TaskerCreateInsert(p)
       \/ UpdateRatingWrite(p)
       \/ Return(p)

SpecTaskersSeq == InitTaskers /\ [][NextTaskersSeq]_vars

\* requests overlapping in time
NextTaskers ==
  \E p \in Procs :
    \/ \E u \in UserInputs : TaskerCreateSelect(p, u)
    \/ \E id \in 1..MaxTaskers, r \in RatingInputs : UpdateRatingFindById(p, id, r)
    \/ TaskerCreateInsert(p)
    \/ UpdateRatingWrite(p)
    \/ Return(p)

SpecTaskers == InitTaskers /\ [][NextTaskers]_vars

\* the average and count a tasker had before any updateRating of the run
BaseOf(id) == IF id = 1 THEN ratingBase ELSE [a |-> NullRat, c |-> 0]

\* C5: at most one tasker row per userId in every state reached, overlapping
\* create requests included, and a create that runs its second statement
\* while the user has a tasker row throws the 400 error and inserts nothing.
C5_OneTaskerPerUser ==
  [][/\ \A i, j \in DOMAIN taskers' :
          taskers'[i].userId = taskers'[j].userId => i = j
     /\ \A p \in Procs :
          (/\ pc[p] = "createInsert"
           /\ pc'[p] # "createInsert"
           /\ \E i \in DOMAIN taskers : taskers[i].userId = call[p].userId)
            => /\ res'[p] = AppError("User already has a tasker profile", 400)
               /\ taskers' = taskers]_vars

\* C8: in a sequential run, after n updateRating calls with ratings r1..rn
\* on a tasker that had average a (null as 0) and count c, totalReviews is
\* c + n and averageRating * totalReviews is a*c + r1 + ... + rn.
C8_RollingAverage ==
  \A id \in DOMAIN taskers :
    /\ taskers[id].totalReviews = BaseOf(id).c + Len(ratingHistory[id])
    /\ RatTimesInt(OrZero(taskers[id].averageRating), taskers[id].totalReviews)
         = RatPlus(RatTimesInt(OrZero(BaseOf(id).a), BaseOf(id).c),
                   RatSum(ratingHistory[id]))

\* (4.0, 3) plus 5.0 has given (4.25, 4)
C8_Witness ==
  /\ ratingBase = [a |-> [n |-> 4, d |-> 1], c |-> 3]
  /\ ratingHistory[1] = <<[n |-> 5, d |-> 1]>>
  /\ taskers[1].averageRating = [n |-> 17, d |-> 4]
  /\ taskers[1].totalReviews = 4

\* C9: whenever no updateRating is in flight, overlapping calls included,
\* totalReviews has grown by the number of calls that have written and the
\* average holds all their ratings.
C9_NoRatingLost ==
  RatingsInFlight = 0 => C8_RollingAverage

(***************************************************************************)
(* CategoryService and ServiceService: slugs                               *)
(* A string is a sequence of characters.                                   *)
(***************************************************************************)
\* the tables no category statement touches
notCategoryTables == <<verifications, verificationLogs, taskers, taskerSkills,
                       services, taskerPortfolio, tasks, taskQuestions, taskFaqs,
                       locations, bookings,
                       payments, paymentMethods, refunds, history>>

IsAlnum(c) == c \in {"H", "h", "g", "1", "2", "3", "4", "5", "6", "7", "8", "9"}

IsSpace(c) == c = " "

Lower(c) == IF c = "H" THEN "h" ELSE c

RECURSIVE TrimLeft(_)
TrimLeft(str) ==
  IF str # <<>> /\ IsSpace(Head(str)) THEN TrimLeft(Tail(str)) ELSE str

RECURSIVE TrimRight(_)
TrimRight(str) ==
  IF str # <<>> /\ IsSpace(str[Len(str)])
    THEN TrimRight(SubSeq(str, 1, Len(str) - 1))
    ELSE str

\* every run of white space becomes one replacement character
RECURSIVE ReplaceSpaces(_)
ReplaceSpaces(str) ==
  IF str = <<>> THEN <<>>
  ELSE IF IsSpace(Head(str))
    THEN <<"-">> \o ReplaceSpaces(TrimLeft(str))
    ELSE <<Head(str)>> \o ReplaceSpaces(Tail(str))

\* slugify(name, { lower: true, strict: true }): drop what is neither a
\* letter, a digit nor white space, trim, join the words with "-", lower-case
slugify(name) ==
  LET strict == SelectSeq(name, LAMBDA c : IsAlnum(c) \/ IsSpace(c))
      joined == ReplaceSpaces(TrimRight(TrimLeft(strict)))
  IN [i \in 1..Len(joined) |-> Lower(joined[i])]

\* the decimal form of an id below ten
IdString(id) == <<<<"1", "2", "3", "4", "5", "6", "7", "8", "9">>[id]>>

\* `${slug}-${id}`
WithIdSuffix(slug, id) == slug \o <<"-">> \o IdString(id)

\* an optional string of a request body
Absent == [set |-> FALSE, v |-> <<>>]

Given(str) == [set |-> TRUE, v |-> str]

\* JavaScript truthiness of an optional string: present and not empty
Truthy(opt) == opt.set /\ opt.v # <<>>

\* the names and slugs requests carry
NameInputs == {<<"H">>, <<"h", "!">>, <<" ", "H", " ", "2">>, <<"g">>}

SlugInputs == {Absent, Given(<<"g">>), Given(<<"H">>)}

\* findBySlug: the id of a row with that slug, 0 when there is none
findBySlug(slug) ==
  IF \E i \in DOMAIN serviceCategories : serviceCategories[i].slug = slug
    THEN CHOOSE i \in DOMAIN serviceCategories : serviceCategories[i].slug = slug
    ELSE 0

\* a store without the unique index on slug never rejects a statement
SlugTakenNoIndex(rows, id, slug) == FALSE

\* the unique index on service_categories.slug rejects a statement that
\* would give row id a slug another row has
SlugTaken(rows, id, slug) ==
  \E i \in DOMAIN rows : i # id /\ rows[i].slug = slug

\* create: slug from the body or slugified from the name, the proactive
\* check, the insert
CategoryCreate(p, name, slugOpt) ==
  /\ pc[p] = "idle"
  /\ Len(serviceCategories) < MaxCategories
  /\ pc' = [pc EXCEPT ![p] = "done"]
  /\ call' = [call EXCEPT ![p] =
                [op |-> "categoryCreate", id |-> 0, name |-> Given(name), slug |-> slugOpt]]
  /\ UNCHANGED <<notCategoryTables, tx>>
  /\ LET slug == IF Truthy(slugOpt) THEN slugOpt.v ELSE slugify(name) IN
     IF findBySlug(slug) # 0
       THEN /\ res' = [res EXCEPT ![p] =
                         AppError("Category with this slug already exists", 400)]
            /\ UNCHANGED serviceCategories
     ELSE IF SlugTaken(serviceCategories, 0, slug)
       THEN /\ res' = [res EXCEPT ![p] = StoreFailure]
            /\ UNCHANGED serviceCategories
     ELSE /\ serviceCategories' = Append(serviceCategories, [slug |-> slug])
          /\ res' = [res EXCEPT ![p] = OkResult]

\* the slug update() ends up writing: the supplied one, or the slugified
\* name with the id appended when another row has it, or none
UpdatedSlug(id, nameOpt, slugOpt) ==
  IF Truthy(nameOpt) /\ ~Truthy(slugOpt)
    THEN LET generated == slugify(nameOpt.v) IN
         IF findBySlug(generated) # 0 /\ findBySlug(generated) # id
           THEN Given(WithIdSuffix(generated, id))
           ELSE Given(generated)
    ELSE slugOpt

\* update: the check of a supplied slug, the generated slug, the update
CategoryUpdate(p, id, nameOpt, slugOpt) ==
  /\ pc[p] = "idle"
  /\ pc' = [pc EXCEPT ![p] = "done"]
  /\ call' = [call EXCEPT ![p] =
                [op |-> "categoryUpdate", id |-> id, name |-> nameOpt, slug |-> slugOpt]]
  /\ UNCHANGED <<notCategoryTables, tx>>
  /\ IF Truthy(slugOpt) /\ findBySlug(slugOpt.v) # 0 /\ findBySlug(slugOpt.v) # id
       THEN /\ res' = [res EXCEPT ![p] =
                         AppError("Category with this slug already exists", 400)]
            /\ UNCHANGED serviceCategories
     ELSE LET written == UpdatedSlug(id, nameOpt, slugOpt) IN
          IF id \notin DOMAIN serviceCategories
            THEN /\ res' = [res EXCEPT ![p] = UndefinedResult]
                 /\ UNCHANGED serviceCategories
          ELSE IF written.set /\ SlugTaken(serviceCategories, id, written.v)
            THEN /\ res' = [res EXCEPT ![p] = StoreFailure]
                 /\ UNCHANGED serviceCategories
          ELSE /\ serviceCategories' =
                    IF written.set
                      THEN [serviceCategories EXCEPT ![id].slug = written.v]
                      ELSE serviceCategories
               /\ res' = [res EXCEPT ![p] = OkResult]

InitCategories ==
  /\ verifications = <<>>
  /\ verificationLogs = <<>>
  /\ taskers = InitialTaskers
  /\ taskerSkills = <<>>
  /\ services = InitialServices
  /\ serviceCategories = <<>>
  /\ taskerPortfolio = <<>>
  /\ NoTaskRows
  /\ locations = InitialLocations
  /\ bookings = <<>>
  /\ NoPaymentRows
  /\ pc = [p \in Procs |-> "idle"]
  /\ call = [p \in Procs |-> NoCall]
  /\ tx = [p \in Procs |-> NoTx]
  /\ res = [p \in Procs |-> NoResult]
  /\ ratingBase = [a |-> NullRat, c |-> 0]
  /\ ratingHistory = [i \in 1..MaxTaskers |-> <<>>]

NextCategories ==
  \/ \E p \in SeqProcs, n \in NameInputs, sl \in SlugInputs : CategoryCreate(p, n, sl)
  \/ \E p \in SeqProcs, id \in 1..MaxCategories,
        n \in {Absent} \cup {Given(x) : x \in NameInputs}, sl \in SlugInputs :
       CategoryUpdate(p, id, n, sl)
  \/ \E p \in SeqProcs : Return(p)

SpecCategories == InitCategories /\ [][NextCategories]_vars

\* C6: a create whose slug, supplied or slugified from the name, is the slug
\* of an existing category throws the 400 conflict and inserts nothing; an
\* update of an existing category that carries only a name whose slugified
\* form is another category's slug succeeds and stores that slug followed
\* by "-" and the id.
C6_SlugCollisionPolicy ==
  [][\A p \in Procs :
       (pc[p] = "idle" /\ pc'[p] = "done")
         => /\ (/\ call'[p].op = "categoryCreate"
                /\ \E i \in DOMAIN serviceCategories :
                     serviceCategories[i].slug =
                       IF Truthy(call'[p].slug) THEN call'[p].slug.v
                       ELSE slugify(call'[p].name.v))
                 => /\ res'[p].outcome = "error"
                    /\ res'[p].code = 400
                    /\ serviceCategories' = serviceCategories
            /\ (/\ call'[p].op = "categoryUpdate"
                /\ call'[p].id \in DOMAIN serviceCategories
                /\ Truthy(call'[p].name)
                /\ ~call'[p].slug.set
                /\ \E i \in DOMAIN serviceCategories :
                     /\ i # call'[p].id
                     /\ serviceCategories[i].slug = slugify(call'[p].name.v))
                 => /\ res'[p] = OkResult
                    /\ serviceCategories'[call'[p].id].slug =
                         WithIdSuffix(slugify(call'[p].name.v), call'[p].id)]_vars

\* C7: no two category rows have the same slug, whatever creates and
\* updates have succeeded.
C7_SlugsUnique ==
  \A i, j \in DOMAIN serviceCategories :
    serviceCategories[i].slug = serviceCategories[j].slug => i = j

\* an update has stored a slugified name with the id appended next to the
\* category that owns the plain slug
C7_Witness ==
  \E p \in Procs :
    /\ pc[p] = "done"
    /\ call[p].op = "categoryUpdate"
    /\ res[p] = OkResult
    /\ Truthy(call[p].name)
    /\ serviceCategories[call[p].id].slug =
         WithIdSuffix(slugify(call[p].name.v), call[p].id)
    /\ \E i \in DOMAIN serviceCategories :
         serviceCategories[i].slug = slugify(call[p].name.v)

(***************************************************************************)
(* TaskerService.findAll                                                   *)
(* The id query, then the three queries that hydrate the page.  An         *)
(* optional search parameter is a record [set, v].                         *)
(***************************************************************************)
DefaultPage == 1

DefaultLimit == 20

MaxLimit == 100

Max(a, b) == IF a >= b THEN a ELSE b

Min(a, b) == IF a <= b THEN a ELSE b

UnsetNumber == [set |-> FALSE, v |-> 0]

UnsetFlag == [set |-> FALSE, v |-> FALSE]

UnsetWord == [set |-> FALSE, v |-> ""]

\* TaskerSearchParams with nothing supplied
NoOptions ==
  [query |-> Absent, serviceId |-> UnsetNumber, serviceSlug |-> Absent,
   locationId |-> UnsetNumber, minRate |-> UnsetNumber, maxRate |-> UnsetNumber,
   minRating |-> UnsetNumber, isElite |-> UnsetFlag,
   isBackgroundChecked |-> UnsetFlag, isIdentityVerified |-> UnsetFlag,
   sort |-> UnsetWord, order |-> UnsetWord, page |-> UnsetNumber,
   radius |-> UnsetNumber, latitude |-> UnsetNumber, longitude |-> UnsetNumber,
   limit |-> UnsetNumber, includeInactive |-> UnsetFlag]

\* the destructuring defaults
includeInactive(options) ==
  IF options.includeInactive.set THEN options.includeInactive.v ELSE FALSE

sortOf(options) == IF options.sort.set THEN options.sort.v ELSE "rating"

orderOf(options) == IF options.order.set THEN options.order.v ELSE "desc"

validatedPage(options) ==
  Max(1, IF options.page.set THEN options.page.v ELSE DefaultPage)

validatedLimit(options) ==
  Min(Max(1, IF options.limit.set THEN options.limit.v ELSE DefaultLimit), MaxLimit)

offset(options) == (validatedPage(options) - 1) * validatedLimit(options)

\* like(column, `%${query}%`)
Contains(str, q) ==
  \E i \in 1..(Len(str) - Len(q) + 1) : SubSeq(str, i, i + Len(q) - 1) = q

\* average_rating >= minRating, never true of NULL
RatAtLeast(r, k) == r.d # 0 /\ r.n >= k * r.d

\* the latitude, longitude and radius are all supplied
hasDistance(options) ==
  options.latitude.set /\ options.longitude.set /\ options.radius.set

\* the conditions pushed on taskerConditions, by name
taskerConditions(options) ==
  {c \in {"isActive"} : ~includeInactive(options)}
    \cup {c \in {"query"} : Truthy(options.query)}
    \cup {c \in {"locationId"} : options.locationId.set /\ options.locationId.v # 0}
    \cup {c \in {"minRating"} : options.minRating.set}
    \cup {c \in {"isElite"} : options.isElite.set}
    \cup {c \in {"isBackgroundChecked"} : options.isBackgroundChecked.set}
    \cup {c \in {"isIdentityVerified"} : options.isIdentityVerified.set}
    \cup {c \in {"radius"} : hasDistance(options)}

hasSkillFilters(options) ==
  \/ options.serviceId.set
  \/ options.serviceSlug.set
  \/ options.minRate.set
  \/ options.maxRate.set

\* the conditions pushed on skillConditions, by name
skillConditions(options) ==
  {c \in {"serviceId"} : options.serviceId.set}
    \cup {c \in {"serviceSlug"} : Truthy(options.serviceSlug)}
    \cup {c \in {"rate"} : options.minRate.set \/ options.maxRate.set}

\* the rows of the FROM clause: a tasker alone, or a tasker with one of the
\* skills and its service under the two inner joins
JoinedRows(options) ==
  IF hasSkillFilters(options)
    THEN {[tasker |-> k.t, skill |-> k.k] :
            k \in {x \in [t : DOMAIN taskers, k : DOMAIN taskerSkills] :
                     /\ taskerSkills[x.k].taskerId = x.t
                     /\ taskerSkills[x.k].serviceId \in DOMAIN services}}
    ELSE {[tasker |-> t, skill |-> 0] : t \in DOMAIN taskers}

\* one condition on one row of the FROM clause; every modelled rate is
\* below Number.MAX_SAFE_INTEGER, the upper end when maxRate is missing
ConditionHolds(c, options, row) ==
  LET t == taskers[row.tasker] IN
  CASE c = "isActive" -> t.isActive
    [] c = "query" -> Contains(t.headline, options.query.v)
                        \/ Contains(t.bio, options.query.v)
    [] c = "locationId" -> t.locationId = options.locationId.v
    [] c = "minRating" -> RatAtLeast(t.averageRating, options.minRating.v)
    [] c = "isElite" -> t.isElite = options.isElite.v
    [] c = "isBackgroundChecked" -> t.backgroundChecked = options.isBackgroundChecked.v
    [] c = "isIdentityVerified" -> t.identityVerified = options.isIdentityVerified.v
    [] c = "serviceId" -> taskerSkills[row.skill].serviceId = options.serviceId.v
    [] c = "serviceSlug" ->
         services[taskerSkills[row.skill].serviceId].slug = options.serviceSlug.v
    [] c = "rate" ->
         /\ taskerSkills[row.skill].hourlyRate >=
              (IF options.minRate.set THEN options.minRate.v ELSE 0)
         /\ options.maxRate.set =>
              taskerSkills[row.skill].hourlyRate <= options.maxRate.v
    [] OTHER -> FALSE

\* the WHERE clause the query is sent with: where() keeps the conditions of
\* its last call, so the tasker conditions replace the skill conditions
QueryWhere(options) ==
  IF taskerConditions(options) # {} THEN taskerConditions(options)
  ELSE IF hasSkillFilters(options) THEN skillConditions(options)
  ELSE {}

\* groupBy(taskers.id) over the rows the WHERE clause keeps
GroupedIds(options) ==
  {row.tasker : row \in {r \in JoinedRows(options) :
                           \A c \in QueryWhere(options) : ConditionHolds(c, options, r)}}

\* the store rejects the query: the distance expression reads columns of
\* locations, and sort "rate" a column of tasker_skills, that the grouping
\* by taskers.id does not cover
QueryRejected(options) == hasDistance(options) \/ sortOf(options) = "rate"

\* the column of sortFieldMap a sort names, as a rational; none for a sort
\* the map does not know and for "distance" without a distance expression
hasOrderBy(options) == sortOf(options) \in {"rating", "completions", "responseTime"}

SortKey(options, id) ==
  CASE sortOf(options) = "rating" -> taskers[id].averageRating
    [] sortOf(options) = "completions" ->
         [n |-> taskers[id].totalTasksCompleted, d |-> 1]
    [] OTHER -> taskers[id].responseTime

\* a sorts strictly before b: ascending puts NULL last, descending first
SortsBefore(a, b, order) ==
  IF order = "asc"
    THEN \/ a.d # 0 /\ b.d = 0
         \/ a.d # 0 /\ b.d # 0 /\ a.n * b.d < b.n * a.d
    ELSE \/ a.d = 0 /\ b.d # 0
         \/ a.d # 0 /\ b.d # 0 /\ a.n * b.d > b.n * a.d

\* every sequence that lists the elements of S once
Orderings(S) ==
  {seq \in [1..Cardinality(S) -> S] : \A i, j \in DOMAIN seq : seq[i] = seq[j] => i = j}

\* the orders in which the store may return the grouped ids
IdOrders(options) ==
  {seq \in Orderings(GroupedIds(options)) :
     hasOrderBy(options) =>
       \A i, j \in DOMAIN seq :
         i < j => ~SortsBefore(SortKey(options, seq[j]), SortKey(options, seq[i]),
                               orderOf(options))}

\* limit and offset
PageOf(seq, options) ==
  SubSeq(seq, offset(options) + 1, Min(Len(seq), offset(options) + validatedLimit(options)))

\* the orders in which the store may return the portfolio items of the page
PortfolioOrders(ids) ==
  {seq \in Orderings({i \in DOMAIN taskerPortfolio : taskerPortfolio[i].taskerId \in ids}) :
     \A i, j \in DOMAIN seq :
       i < j => taskerPortfolio[seq[i]].displayOrder <= taskerPortfolio[seq[j]].displayOrder}

Range(seq) == {seq[i] : i \in DOMAIN seq}

\* the id query
FindAllIdsQuery(p, options) ==
  /\ pc[p] = "idle"
  /\ UNCHANGED <<tables, tx, history>>
  /\ IF QueryRejected(options)
       THEN /\ pc' = [pc EXCEPT ![p] = "done"]
            /\ call' = [call EXCEPT ![p] = [op |-> "findAll", options |-> options]]
            /\ res' = [res EXCEPT ![p] = StoreFailure]
       ELSE \E seq \in IdOrders(options) :
              LET filteredTaskerIds == PageOf(seq, options) IN
              /\ call' = [call EXCEPT ![p] =
                            [op |-> "findAll", options |-> options,
                             limit |-> validatedLimit(options),
                             offset |-> offset(options),
                             filteredTaskerIds |-> filteredTaskerIds,
                             taskersById |-> <<>>, skills |-> <<>>]]
              /\ IF filteredTaskerIds = <<>>
                   THEN /\ pc' = [pc EXCEPT ![p] = "done"]
                        /\ res' = [res EXCEPT ![p] =
                                     [outcome |-> "ok", code |-> 200, message |-> <<>>,
                                      rows |-> <<>>]]
                   ELSE /\ pc' = [pc EXCEPT ![p] = "findAllTaskers"]
                        /\ UNCHANGED res

\* the full rows: every tasker of the table, whatever the page holds
FindAllFetchTaskers(p) ==
  /\ pc[p] = "findAllTaskers"
  /\ pc' = [pc EXCEPT ![p] = "findAllSkills"]
  /\ call' = [call EXCEPT ![p].taskersById = taskers]
  /\ UNCHANGED <<tables, tx, res, history>>

\* the active skills of the taskers of the page
FindAllFetchSkills(p) ==
  /\ pc[p] = "findAllSkills"
  /\ pc' = [pc EXCEPT ![p] = "findAllPortfolio"]
  /\ call' = [call EXCEPT ![p].skills =
                [id \in DOMAIN call[p].taskersById |->
                   {k \in DOMAIN taskerSkills :
                      /\ taskerSkills[k].taskerId = id
                      /\ id \in Range(call[p].filteredTaskerIds)
                      /\ taskerSkills[k].isActive}]]
  /\ UNCHANGED <<tables, tx, res, history>>

\* the page in the order in which the map of full rows holds the taskers
ReturnedIdsMapOrder(filteredTaskerIds, taskersById) ==
  CHOOSE seq \in Orderings(Range(filteredTaskerIds) \cap DOMAIN taskersById) :
    \A i, j \in DOMAIN seq : i < j => seq[i] < seq[j]

\* the return statement: the ids of the page in their order, each mapped
\* to its entry of the map, entries that are missing filtered out
ReturnedIds(filteredTaskerIds, taskersById) ==
  SelectSeq(filteredTaskerIds, LAMBDA id : id \in DOMAIN taskersById)

\* the portfolio items of the page, then the page in the order of the ids
FindAllFetchPortfolio(p) ==
  /\ pc[p] = "findAllPortfolio"
  /\ pc' = [pc EXCEPT ![p] = "done"]
  /\ \E items \in PortfolioOrders(Range(call[p].filteredTaskerIds)) :
       LET found == ReturnedIds(call[p].filteredTaskerIds, call[p].taskersById)
       IN res' = [res EXCEPT ![p] =
                    [outcome |-> "ok", code |-> 200, message |-> <<>>,
                     rows |-> [i \in DOMAIN found |->
                                 [id |-> found[i],
                                  tasker |-> call[p].taskersById[found[i]],
                                  skills |-> call[p].skills[found[i]],
                                  portfolioItems |->
                                    SelectSeq(items, LAMBDA it :
                                      taskerPortfolio[it].taskerId = found[i])]]]]
  /\ UNCHANGED <<tables, tx, call, history>>

\* the stores searched: three taskers, each one of three profiles
SearchProfiles ==
  {[DefaultTasker(1) EXCEPT !.averageRating = [n |-> 9, d |-> 2], !.isElite = TRUE,
                            !.headline = <<"p", "l">>, !.totalTasksCompleted = 5,
                            !.locationId = 1, !.backgroundChecked = TRUE,
                            !.identityVerified = TRUE,
                            !.responseTime = [n |-> 30, d |-> 1]],
   DefaultTasker(1),
   [DefaultTasker(1) EXCEPT !.isActive = FALSE, !.averageRating = [n |-> 4, d |-> 1],
                            !.bio = <<"p">>, !.totalTasksCompleted = 5,
                            !.locationId = 1]}

SearchTaskerIds == 1..3

SkillRow(taskerId, serviceId, hourlyRate, isActive) ==
  [taskerId |-> taskerId, serviceId |-> serviceId, hourlyRate |-> hourlyRate,
   quickPitch |-> "a", isActive |-> isActive]

SearchSkills ==
  {<<>>,
   <<SkillRow(1, 1, 10, TRUE), SkillRow(2, 2, 30, TRUE)>>,
   <<SkillRow(1, 1, 10, TRUE), SkillRow(1, 2, 20, TRUE), SkillRow(2, 1, 30, FALSE),
     SkillRow(3, 2, 10, TRUE)>>}

PortfolioRow(taskerId, displayOrder) ==
  [taskerId |-> taskerId, displayOrder |-> displayOrder]

SearchPortfolios ==
  {<<>>,
   <<PortfolioRow(1, 2), PortfolioRow(2, 0), PortfolioRow(1, 1), PortfolioRow(1, 1)>>}

\* the filters, sorts and pages requests carry
FilterInputs ==
  {NoOptions,
   [NoOptions EXCEPT !.includeInactive = Given(TRUE)],
   [NoOptions EXCEPT !.query = Given(<<"p">>)],
   [NoOptions EXCEPT !.locationId = Given(1)],
   [NoOptions EXCEPT !.minRating = Given(4)],
   [NoOptions EXCEPT !.isElite = Given(TRUE)],
   [NoOptions EXCEPT !.isBackgroundChecked = Given(TRUE)],
   [NoOptions EXCEPT !.isIdentityVerified = Given(FALSE),
                     !.includeInactive = Given(TRUE)],
   [NoOptions EXCEPT !.serviceId = Given(1)],
   [NoOptions EXCEPT !.serviceSlug = Given(ServiceRow(2).slug)],
   [NoOptions EXCEPT !.serviceSlug = Given(ServiceRow(9).slug)],
   [NoOptions EXCEPT !.minRate = Given(15)],
   [NoOptions EXCEPT !.serviceId = Given(1), !.includeInactive = Given(TRUE)],
   [NoOptions EXCEPT !.serviceSlug = Given(ServiceRow(9).slug),
                     !.includeInactive = Given(TRUE)],
   [NoOptions EXCEPT !.serviceId = Given(2), !.maxRate = Given(15),
                     !.includeInactive = Given(TRUE)],
   [NoOptions EXCEPT !.latitude = Given(6), !.longitude = Given(3),
                     !.radius = Given(10)]}

SortInputs ==
  {<<UnsetWord, UnsetWord>>, <<Given("completions"), Given("asc")>>,
   <<Given("responseTime"), UnsetWord>>, <<Given("rate"), UnsetWord>>,
   <<Given("distance"), UnsetWord>>, <<Given("name"), Given("asc")>>}

PageInputs ==
  {<<UnsetNumber, UnsetNumber>>, <<Given(2), Given(1)>>, <<Given(0), Given(0)>>,
   <<Given(1), Given(101)>>}

FindAllInputs ==
  {[f EXCEPT !.page = pg[1], !.limit = pg[2]] : f \in FilterInputs, pg \in PageInputs}
    \cup {[NoOptions EXCEPT !.sort = so[1], !.order = so[2], !.page = pg[1],
                            !.limit = pg[2]] : so \in SortInputs, pg \in PageInputs}

InitFindAll ==
  /\ verifications = <<>>
  /\ verificationLogs = <<>>
  /\ taskers \in [SearchTaskerIds -> SearchProfiles]
  /\ taskerSkills \in SearchSkills
  /\ services = InitialServices
  /\ serviceCategories = <<>>
  /\ taskerPortfolio \in SearchPortfolios
  /\ NoTaskRows
  /\ locations = InitialLocations
  /\ bookings = <<>>
  /\ NoPaymentRows
  /\ pc = [p \in Procs |-> "idle"]
  /\ call = [p \in Procs |-> NoCall]
  /\ tx = [p \in Procs |-> NoTx]
  /\ res = [p \in Procs |-> NoResult]
  /\ ratingBase = [a |-> NullRat, c |-> 0]
  /\ ratingHistory = [i \in 1..MaxTaskers |-> <<>>]

NextFindAll ==
  \/ \E p \in SeqProcs, options \in FindAllInputs : FindAllIdsQuery(p, options)
  \/ \E p \in SeqProcs : FindAllFetchTaskers(p)
  \/ \E p \in SeqProcs : FindAllFetchSkills(p)
  \/ \E p \in SeqProcs : FindAllFetchPortfolio(p)
  \/ \E p \in SeqProcs : Return(p)

SpecFindAll == InitFindAll /\ [][NextFindAll]_vars

\* one skill of the tasker meets every skill filter the options carry
HasMatchingSkill(options, id) ==
  \E k \in DOMAIN taskerSkills :
    /\ taskerSkills[k].taskerId = id
    /\ options.serviceId.set => taskerSkills[k].serviceId = options.serviceId.v
    /\ Truthy(options.serviceSlug) =>
         /\ taskerSkills[k].serviceId \in DOMAIN services
         /\ services[taskerSkills[k].serviceId].slug = options.serviceSlug.v
    /\ options.minRate.set => taskerSkills[k].hourlyRate >= options.minRate.v
    /\ options.maxRate.set => taskerSkills[k].hourlyRate <= options.maxRate.v

\* C10: every tasker findAll returns satisfies every filter supplied, all of
\* them together: the active flag unless includeInactive, the text query,
\* locationId, minRating, the three flags, and one skill of the tasker
\* that meets serviceId, serviceSlug and the rate range; a serviceSlug no
\* service has returns nothing.
C10_FiltersConjoined ==
  \A p \in Procs :
    (pc[p] = "done" /\ call[p].op = "findAll" /\ res[p].outcome = "ok") =>
      LET options == call[p].options IN
      /\ \A i \in DOMAIN res[p].rows :
           LET id == res[p].rows[i].id
               t == taskers[id]
           IN /\ ~(options.includeInactive.set /\ options.includeInactive.v) => t.isActive
              /\ Truthy(options.query) =>
                   Contains(t.headline, options.query.v) \/ Contains(t.bio, options.query.v)
              /\ (options.locationId.set /\ options.locationId.v # 0) =>
                   t.locationId = options.locationId.v
              /\ options.minRating.set =>
                   /\ t.averageRating.d # 0
                   /\ t.averageRating.n >= options.minRating.v * t.averageRating.d
              /\ options.isElite.set => t.isElite = options.isElite.v
              /\ options.isBackgroundChecked.set =>
                   t.backgroundChecked = options.isBackgroundChecked.v
              /\ options.isIdentityVerified.set =>
                   t.identityVerified = options.isIdentityVerified.v
              /\ (\/ options.serviceId.set \/ Truthy(options.serviceSlug)
                  \/ options.minRate.set \/ options.maxRate.set) =>
                   HasMatchingSkill(options, id)
      /\ (/\ Truthy(options.serviceSlug)
          /\ \A sv \in DOMAIN services : services[sv].slug # options.serviceSlug.v)
           => res[p].rows = <<>>

(***************************************************************************)
(* TaskService.findAll                                                     *)
(* The page query, then the two child queries of Promise.all in either     *)
(* order.                                                                  *)
(***************************************************************************)
\* TaskSearchParams with nothing supplied; findAll reads no other field
NoTaskOptions ==
  [query |-> Absent, serviceId |-> UnsetNumber, serviceSlug |-> Absent,
   locationId |-> UnsetNumber, sort |-> UnsetWord, order |-> UnsetWord,
   page |-> UnsetNumber, limit |-> UnsetNumber, includeInactive |-> UnsetFlag]

\* a tasks row
TaskRow(name, serviceId, createdAt, isActive) ==
  [name |-> name, description |-> <<>>, shortDescription |-> <<>>,
   serviceId |-> serviceId, locationId |-> 1, slug |-> slugify(name),
   createdAt |-> createdAt, isActive |-> isActive]

\* a task_questions or task_faqs row
ChildRow(taskId, displayOrder) == [taskId |-> taskId, displayOrder |-> displayOrder]

\* the destructuring defaults
taskSortOf(options) == IF options.sort.set THEN options.sort.v ELSE "createdAt"

validPage(options) == Max(IF options.page.set THEN options.page.v ELSE DefaultPage, 1)

validLimit(options) == Max(IF options.limit.set THEN options.limit.v ELSE DefaultLimit, 1)

\* if (options.x): supplied and not zero
TruthyNumber(opt) == opt.set /\ opt.v # 0

\* the conditions pushed on conditions, by name
taskConditions(options) ==
  {c \in {"query"} : Truthy(options.query)}
    \cup {c \in {"serviceId"} : TruthyNumber(options.serviceId)}
    \cup {c \in {"serviceSlug"} : Truthy(options.serviceSlug)}
    \cup {c \in {"locationId"} : TruthyNumber(options.locationId)}

TaskConditionHolds(c, options, id) ==
  LET t == tasks[id] IN
  CASE c = "query" -> \/ Contains(t.name, options.query.v)
                      \/ Contains(t.description, options.query.v)
                      \/ Contains(t.shortDescription, options.query.v)
    [] c = "serviceId" -> t.serviceId = options.serviceId.v
    [] c = "serviceSlug" -> /\ t.serviceId \in DOMAIN services
                            /\ services[t.serviceId].slug = options.serviceSlug.v
    [] c = "locationId" -> t.locationId = options.locationId.v
    [] OTHER -> FALSE

\* the rows the WHERE clause keeps; the left joins add no row
TaskMatches(options) ==
  {id \in DOMAIN tasks :
     \A c \in taskConditions(options) : TaskConditionHolds(c, options, id)}

\* the order of the characters in the collation of the store
CharCode(c) ==
  CASE c = " " -> 0 [] c = "!" -> 1 [] c = "-" -> 2 [] c = "2" -> 3
    [] c = "g" -> 4 [] c = "h" -> 5 [] c = "H" -> 6 [] c = "l" -> 7
    [] c = "p" -> 8 [] OTHER -> 9

RECURSIVE TextBefore(_, _)
TextBefore(a, b) ==
  IF b = <<>> THEN FALSE
  ELSE IF a = <<>> THEN TRUE
  ELSE IF CharCode(Head(a)) # CharCode(Head(b))
    THEN CharCode(Head(a)) < CharCode(Head(b))
    ELSE TextBefore(Tail(a), Tail(b))

\* the switch on sort: name, or createdAt for every other value; task a
\* sorts strictly before task b
TaskSortsBefore(a, b, options) ==
  LET less == IF taskSortOf(options) = "name"
                THEN TextBefore(tasks[a].name, tasks[b].name)
                ELSE tasks[a].createdAt < tasks[b].createdAt
      more == IF taskSortOf(options) = "name"
                THEN TextBefore(tasks[b].name, tasks[a].name)
                ELSE tasks[b].createdAt < tasks[a].createdAt
  IN IF orderOf(options) = "asc" THEN less ELSE more

\* the orders in which the store may return the matching tasks
TaskOrders(options) ==
  {seq \in Orderings(TaskMatches(options)) :
     \A i, j \in DOMAIN seq : i < j => ~TaskSortsBefore(seq[j], seq[i], options)}

\* limit and offset
TaskPageOf(seq, options) ==
  SubSeq(seq, (validPage(options) - 1) * validLimit(options) + 1,
         Min(Len(seq), validPage(options) * validLimit(options)))

\* the page query
TaskFindAllQuery(p, options) ==
  /\ pc[p] = "idle"
  /\ UNCHANGED <<tables, tx, history>>
  /\ \E seq \in TaskOrders(options) :
       LET taskIds == TaskPageOf(seq, options) IN
       /\ call' = [call EXCEPT ![p] =
                     [op |-> "taskFindAll", options |-> options,
                      limit |-> validLimit(options),
                      offset |-> (validPage(options) - 1) * validLimit(options),
                      taskIds |-> taskIds, questions |-> <<>>, faqs |-> <<>>,
                      pending |-> {"questions", "faqs"}]]
       /\ IF taskIds = <<>>
            THEN /\ pc' = [pc EXCEPT ![p] = "done"]
                 /\ res' = [res EXCEPT ![p] =
                              [outcome |-> "ok", code |-> 200, message |-> <<>>,
                               rows |-> <<>>]]
            ELSE /\ pc' = [pc EXCEPT ![p] = "taskChildren"]
                 /\ UNCHANGED res

\* the questions of the tasks of the page, in the order the store returns
\* them: the query has no ORDER BY
TaskFindAllQuestions(p) ==
  /\ pc[p] = "taskChildren"
  /\ "questions" \in call[p].pending
  /\ \E rows \in Orderings({q \in DOMAIN taskQuestions :
                             taskQuestions[q].taskId \in Range(call[p].taskIds)}) :
       call' = [call EXCEPT ![p].questions = rows,
                            ![p].pending = @ \ {"questions"}]
  /\ UNCHANGED <<tables, tx, pc, res, history>>

\* the FAQs of the tasks of the page, likewise
TaskFindAllFaqs(p) ==
  /\ pc[p] = "taskChildren"
  /\ "faqs" \in call[p].pending
  /\ \E rows \in Orderings({f \in DOMAIN taskFaqs :
                             taskFaqs[f].taskId \in Range(call[p].taskIds)}) :
       call' = [call EXCEPT ![p].faqs = rows,
                            ![p].pending = @ \ {"faqs"}]
  /\ UNCHANGED <<tables, tx, pc, res, history>>

\* both child queries have answered: the maps by taskId, then the page
TaskFindAllReturn(p) ==
  /\ pc[p] = "taskChildren"
  /\ call[p].pending = {}
  /\ pc' = [pc EXCEPT ![p] = "done"]
  /\ res' = [res EXCEPT ![p] =
               [outcome |-> "ok", code |-> 200, message |-> <<>>,
                rows |-> [i \in DOMAIN call[p].taskIds |->
                            [id |-> call[p].taskIds[i],
                             questions |->
                               SelectSeq(call[p].questions, LAMBDA q :
                                 taskQuestions[q].taskId = call[p].taskIds[i]),
                             faqs |->
                               SelectSeq(call[p].faqs, LAMBDA f :
                                 taskFaqs[f].taskId = call[p].taskIds[i])]]]]
  /\ UNCHANGED <<tables, tx, call, history>>

\* the stores searched
SearchTasks ==
  {<<TaskRow(<<"g">>, 1, 1, TRUE)>>,
   <<TaskRow(<<"g">>, 1, 1, TRUE), TaskRow(<<"h">>, 2, 2, FALSE),
     TaskRow(<<"p">>, 1, 2, TRUE)>>,
   <<TaskRow(<<"p">>, 2, 3, TRUE), TaskRow(<<"h">>, 1, 2, TRUE),
     TaskRow(<<"g", "p">>, 1, 1, TRUE)>>}

SearchQuestions ==
  {<<>>, <<ChildRow(1, 2), ChildRow(1, 1), ChildRow(3, 0)>>}

SearchFaqs ==
  {<<>>, <<ChildRow(1, 1), ChildRow(2, 0), ChildRow(1, 0)>>}

TaskFilterInputs ==
  {NoTaskOptions,
   [NoTaskOptions EXCEPT !.includeInactive = Given(TRUE)],
   [NoTaskOptions EXCEPT !.includeInactive = Given(FALSE)],
   [NoTaskOptions EXCEPT !.query = Given(<<"p">>)],
   [NoTaskOptions EXCEPT !.serviceId = Given(1)],
   [NoTaskOptions EXCEPT !.serviceSlug = Given(ServiceRow(2).slug)],
   [NoTaskOptions EXCEPT !.serviceSlug = Given(ServiceRow(9).slug)],
   [NoTaskOptions EXCEPT !.locationId = Given(1), !.serviceId = Given(0)]}

TaskSortInputs ==
  {<<UnsetWord, UnsetWord>>, <<Given("name"), Given("asc")>>,
   <<Given("name"), Given("desc")>>, <<Given("createdAt"), Given("asc")>>,
   <<Given("rating"), UnsetWord>>, <<Given("popularity"), Given("asc")>>}

TaskPageInputs ==
  {<<UnsetNumber, UnsetNumber>>, <<Given(2), Given(1)>>, <<Given(0), Given(0)>>,
   <<Given(1), Given(101)>>, <<Given(2), Given(2)>>}

TaskFindAllInputs ==
  {[f EXCEPT !.page = pg[1], !.limit = pg[2]] :
     f \in TaskFilterInputs, pg \in TaskPageInputs}
    \cup {[NoTaskOptions EXCEPT !.sort = so[1], !.order = so[2], !.page = pg[1],
                                !.limit = pg[2]] :
            so \in TaskSortInputs, pg \in TaskPageInputs}

InitTaskFindAll ==
  /\ verifications = <<>>
  /\ verificationLogs = <<>>
  /\ taskers = InitialTaskers
  /\ taskerSkills = <<>>
  /\ services = InitialServices
  /\ serviceCategories = <<>>
  /\ taskerPortfolio = <<>>
  /\ tasks \in SearchTasks
  /\ taskQuestions \in SearchQuestions
  /\ taskFaqs \in SearchFaqs
  /\ locations = InitialLocations
  /\ bookings = <<>>
  /\ NoPaymentRows
  /\ pc = [p \in Procs |-> "idle"]
  /\ call = [p \in Procs |-> NoCall]
  /\ tx = [p \in Procs |-> NoTx]
  /\ res = [p \in Procs |-> NoResult]
  /\ ratingBase = [a |-> NullRat, c |-> 0]
  /\ ratingHistory = [i \in 1..MaxTaskers |-> <<>>]

NextTaskFindAll ==
  \/ \E p \in SeqProcs, options \in TaskFindAllInputs : TaskFindAllQuery(p, options)
  \/ \E p \in SeqProcs : TaskFindAllQuestions(p)
  \/ \E p \in SeqProcs : TaskFindAllFaqs(p)
  \/ \E p \in SeqProcs : TaskFindAllReturn(p)
  \/ \E p \in SeqProcs : Return(p)

SpecTaskFindAll == InitTaskFindAll /\ [][NextTaskFindAll]_vars

\* C11: with includeInactive unset or false, no tasker that tasker findAll
\* returns and no task that task findAll returns has isActive false,
\* whatever the other filters, the sort and the page.
C11_InactiveExcluded ==
  \A p \in Procs :
    (/\ pc[p] = "done"
     /\ call[p].op \in {"findAll", "taskFindAll"}
     /\ res[p].outcome = "ok"
     /\ ~(call[p].options.includeInactive.set /\ call[p].options.includeInactive.v))
      => \A i \in DOMAIN res[p].rows :
           IF call[p].op = "findAll"
             THEN taskers[res[p].rows[i].id].isActive
             ELSE tasks[res[p].rows[i].id].isActive

\* C12: the taskers tasker findAll returns are those of the id query, in
\* its order and each once, whatever order the store answers the full-row,
\* skill and portfolio queries in.
C12_PageOrderKept ==
  \A p \in Procs :
    (pc[p] = "done" /\ call[p].op = "findAll" /\ res[p].outcome = "ok") =>
      /\ [i \in DOMAIN res[p].rows |-> res[p].rows[i].id] = call[p].filteredTaskerIds
      /\ \A i, j \in DOMAIN res[p].rows :
           res[p].rows[i].id = res[p].rows[j].id => i = j

\* a page of several taskers that the id query did not return in the
\* order of the table
C12_Witness ==
  \E p \in Procs :
    /\ pc[p] = "done"
    /\ call[p].op = "findAll"
    /\ res[p].outcome = "ok"
    /\ Len(res[p].rows) >= 2
    /\ res[p].rows[1].id > res[p].rows[2].id
    /\ res[p].rows[1].portfolioItems # <<>>

\* the sequence lists exactly the rows of the table that belong to the
\* parent, each once, by ascending displayOrder
OwnChildrenInOrder(children, table, parent, id) ==
  /\ Range(children) = {c \in DOMAIN table : table[c][parent] = id}
  /\ \A i, j \in DOMAIN children :
       /\ children[i] = children[j] => i = j
       /\ i < j => table[children[i]].displayOrder <= table[children[j]].displayOrder

\* C13: on every page findAll returns, each child array of a parent (the
\* questions and the faqs of a task, the portfolioItems of a tasker) holds
\* exactly the child rows of that parent, by ascending displayOrder.
C13_ChildrenOwnAndOrdered ==
  \A p \in Procs :
    (pc[p] = "done" /\ call[p].op \in {"findAll", "taskFindAll"}
       /\ res[p].outcome = "ok") =>
      \A i \in DOMAIN res[p].rows :
        LET row == res[p].rows[i] IN
        IF call[p].op = "findAll"
          THEN OwnChildrenInOrder(row.portfolioItems, taskerPortfolio,
                                  "taskerId", row.id)
          ELSE /\ OwnChildrenInOrder(row.questions, taskQuestions, "taskId", row.id)
               /\ OwnChildrenInOrder(row.faqs, taskFaqs, "taskId", row.id)

(***************************************************************************)
(* Two tasker searches, one after the other, over one unchanged store.     *)
(***************************************************************************)
\* the requests of the two callers: one filter and sort, consecutive pages
PagedInputs ==
  {[f EXCEPT !.sort = so[1], !.order = so[2], !.page = Given(pg), !.limit = Given(1)] :
     f \in {NoOptions, [NoOptions EXCEPT !.includeInactive = Given(TRUE)]},
     so \in {<<UnsetWord, UnsetWord>>, <<Given("completions"), Given("asc")>>},
     pg \in 1..3}

InitFindAllPages ==
  /\ verifications = <<>>
  /\ verificationLogs = <<>>
  /\ taskers \in [SearchTaskerIds -> SearchProfiles]
  /\ taskerSkills = <<>>
  /\ services = InitialServices
  /\ serviceCategories = <<>>
  /\ taskerPortfolio = <<>>
  /\ NoTaskRows
  /\ locations = InitialLocations
  /\ bookings = <<>>
  /\ NoPaymentRows
  /\ pc = [p \in Procs |-> "idle"]
  /\ call = [p \in Procs |-> NoCall]
  /\ tx = [p \in Procs |-> NoTx]
  /\ res = [p \in Procs |-> NoResult]
  /\ ratingBase = [a |-> NullRat, c |-> 0]
  /\ ratingHistory = [i \in 1..MaxTaskers |-> <<>>]

\* caller 2 sends its request once the page of caller 1 has come back
NextFindAllPages ==
  \/ \E p \in Procs, options \in PagedInputs :
       /\ p = 2 => pc[1] = "done"
       /\ FindAllIdsQuery(p, options)
  \/ \E p \in Procs : FindAllFetchTaskers(p)
  \/ \E p \in Procs : FindAllFetchSkills(p)
  \/ \E p \in Procs : FindAllFetchPortfolio(p)

SpecFindAllPages == InitFindAllPages /\ [][NextFindAllPages]_vars

\* C14: two tasker searches with the same filters, sort and limit L over an
\* unchanged store, one for page N and one for page N+1, share no tasker,
\* and page N followed by page N+1 is rows (N-1)*L+1 .. (N+1)*L of one
\* ordered result, also when taskers have equal sort keys.
C14_PagesDisjoint ==
  \A p, q \in Procs :
    (/\ pc[p] = "done" /\ call[p].op = "findAll" /\ res[p].outcome = "ok"
     /\ pc[q] = "done" /\ call[q].op = "findAll" /\ res[q].outcome = "ok"
     /\ [call[p].options EXCEPT !.page = call[q].options.page] = call[q].options
     /\ validatedPage(call[q].options) = validatedPage(call[p].options) + 1) =>
      LET first == [i \in DOMAIN res[p].rows |-> res[p].rows[i].id]
          second == [i \in DOMAIN res[q].rows |-> res[q].rows[i].id]
          skip == offset(call[p].options)
          both == 2 * validatedLimit(call[p].options)
      IN /\ Range(first) \cap Range(second) = {}
         /\ \E seq \in IdOrders(call[p].options) :
              first \o second = SubSeq(seq, skip + 1, Min(Len(seq), skip + both))

\* C15: tasker findAll and task findAll send the query with the limit
\* min(max(1, limit), 100) and the offset (max(1, page) - 1) times that
\* limit, return exactly that slice of the sorted filtered rows, and so
\* never more than 100 entities.
C15_PageAndLimitClamped ==
  \A p \in Procs :
    (pc[p] = "done" /\ call[p].op \in {"findAll", "taskFindAll"}
       /\ res[p].outcome = "ok") =>
      LET options == call[p].options
          page == IF options.page.set THEN options.page.v ELSE 1
          limit == IF options.limit.set THEN options.limit.v ELSE 20
          effectivePage == IF page < 1 THEN 1 ELSE page
          effectiveLimit == IF limit < 1 THEN 1 ELSE IF limit > 100 THEN 100 ELSE limit
          skipped == (effectivePage - 1) * effectiveLimit
          ids == [i \in DOMAIN res[p].rows |-> res[p].rows[i].id]
      IN /\ call[p].limit = effectiveLimit
         /\ call[p].offset = skipped
         /\ Len(ids) <= 100
         /\ \E seq \in (IF call[p].op = "findAll" THEN IdOrders(options)
                        ELSE TaskOrders(options)) :
              ids = SubSeq(seq, skipped + 1,
                           IF Len(seq) < skipped + effectiveLimit THEN Len(seq)
                           ELSE skipped + effectiveLimit)

\* C18: a findAll whose sort is none of the values the search knows does
\* not fail and returns the page of the rows ordered by the default column
\* (averageRating for taskers, createdAt for tasks) in the requested
\* direction, as the same call without a sort would.
C18_UnknownSortIsDefault ==
  \A p \in Procs :
    (/\ pc[p] = "done"
     /\ call[p].op \in {"findAll", "taskFindAll"}
     /\ call[p].options.sort.set
     /\ call[p].options.sort.v \notin
          (IF call[p].op = "findAll"
             THEN {"rating", "completions", "rate", "responseTime", "distance"}
             ELSE {"name", "createdAt"})) =>
      LET defaulted == [call[p].options EXCEPT !.sort = UnsetWord]
          ids == [i \in DOMAIN res[p].rows |-> res[p].rows[i].id]
      IN /\ res[p].outcome = "ok"
         /\ IF call[p].op = "findAll"
              THEN \E seq \in IdOrders(defaulted) : ids = PageOf(seq, defaulted)
              ELSE \E seq \in TaskOrders(defaulted) : ids = TaskPageOf(seq, defaulted)

(***************************************************************************)
(* serviceService.getTaskersForService                                     *)
(* The skill query, the booking query when a date is asked for, then the   *)
(* sort, the page and its enrichment.                                      *)
(***************************************************************************)
\* the filters with nothing supplied
NoFilters ==
  [location |-> [set |-> FALSE, latitude |-> 0, longitude |-> 0, radius |-> 0],
   minRating |-> UnsetNumber, maxPrice |-> UnsetNumber, minPrice |-> UnsetNumber,
   availability |-> UnsetNumber, page |-> UnsetNumber, limit |-> UnsetNumber,
   sort |-> UnsetWord, order |-> UnsetWord]

\* the destructuring defaults
pageOf(filters) == IF filters.page.set THEN filters.page.v ELSE DefaultPage

limitOf(filters) == IF filters.limit.set THEN filters.limit.v ELSE DefaultLimit

\* the radius of the spherical Earth of the great-circle distance, in km
EarthRadiusKm == 6371

\* calculateDistance: the great-circle distance in whole kilometres, for two
\* points of one meridian: the radius times the difference of the latitudes
\* in radians, pi taken as 355/113
calculateDistance(lat1, lon1, lat2, lon2) ==
  (EarthRadiusKm * 355 * (IF lat1 >= lat2 THEN lat1 - lat2 ELSE lat2 - lat1))
    \div (113 * 180)

\* the conditions of the where() call that reaches the store: each call
\* replaces the conditions of the one before
ServiceQueryWhere(filters) ==
  IF filters.minRating.set THEN {"minRating"}
  ELSE IF filters.maxPrice.set THEN {"maxPrice"}
  ELSE IF filters.minPrice.set THEN {"minPrice"}
  ELSE {"serviceId", "skillActive", "taskerActive"}

ServiceConditionHolds(c, serviceId, filters, k) ==
  LET skill == taskerSkills[k]
      tasker == taskers[skill.taskerId]
  IN CASE c = "serviceId" -> skill.serviceId = serviceId
       [] c = "skillActive" -> skill.isActive
       [] c = "taskerActive" -> tasker.isActive
       [] c = "minPrice" -> skill.hourlyRate >= filters.minPrice.v
       [] c = "maxPrice" -> skill.hourlyRate <= filters.maxPrice.v
       [] c = "minRating" -> RatAtLeast(tasker.averageRating, filters.minRating.v)
       [] OTHER -> FALSE

\* the skill rows the query returns: a skill, its tasker and the tasker's
\* user under the inner joins
ServiceQueryRows(serviceId, filters) ==
  {k \in DOMAIN taskerSkills :
     /\ taskerSkills[k].taskerId \in DOMAIN taskers
     /\ taskers[taskerSkills[k].taskerId].userId \in UserIds
     /\ \A c \in ServiceQueryWhere(filters) :
          ServiceConditionHolds(c, serviceId, filters, k)}

\* the distance of a result row: undefined without a location filter, a
\* location or coordinates
DistanceOf(filters, k) ==
  LET locationId == taskers[taskerSkills[k].taskerId].locationId IN
  IF /\ filters.location.set
     /\ locationId \in DOMAIN locations
     /\ locations[locationId].latitude.set
     /\ locations[locationId].longitude.set
    THEN [set |-> TRUE,
          v |-> calculateDistance(filters.location.latitude, filters.location.longitude,
                                  locations[locationId].latitude.v,
                                  locations[locationId].longitude.v)]
    ELSE UnsetNumber

\* the filter on the distance
WithinRadius(filters, k) ==
  filters.location.set =>
    (~DistanceOf(filters, k).set \/ DistanceOf(filters, k).v <= filters.location.radius)

\* the sign of x - y for two rationals that are not NULL
RatSign(x, y) ==
  IF x.n * y.d < y.n * x.d THEN -1 ELSE IF x.n * y.d > y.n * x.d THEN 1 ELSE 0

\* the comparator of the sort, as the sign of what it returns for rows a, b
Comparator(filters, a, b) ==
  LET sort == IF filters.sort.set THEN filters.sort.v ELSE "rating"
      order == IF filters.order.set THEN filters.order.v ELSE "desc"
      ta == taskers[taskerSkills[a].taskerId]
      tb == taskers[taskerSkills[b].taskerId]
      da == DistanceOf(filters, a)
      db == DistanceOf(filters, b)
      flip(comparison) == IF order = "asc" THEN comparison ELSE -comparison
  IN CASE sort = "rating" ->
            flip(RatSign(OrZero(tb.averageRating), OrZero(ta.averageRating)))
       [] sort = "price" ->
            flip(RatSign([n |-> taskerSkills[a].hourlyRate, d |-> 1],
                         [n |-> taskerSkills[b].hourlyRate, d |-> 1]))
       [] sort = "distance" ->
            IF ~da.set /\ ~db.set THEN 0
            ELSE IF ~da.set THEN 1
            ELSE IF ~db.set THEN -1
            ELSE flip(RatSign([n |-> da.v, d |-> 1], [n |-> db.v, d |-> 1]))
       [] sort = "completedTasks" ->
            flip(RatSign([n |-> tb.totalTasksCompleted, d |-> 1],
                         [n |-> ta.totalTasksCompleted, d |-> 1]))
       [] OTHER -> 0

\* the position of an element in a sequence that holds it once
IndexOf(seq, x) == CHOOSE i \in DOMAIN seq : seq[i] = x

\* Array.prototype.sort: the stable sort of the rows by the comparator
SortedResults(filters, rows) ==
  CHOOSE seq \in Orderings(Range(rows)) :
    \A i, j \in DOMAIN seq :
      i < j => \/ Comparator(filters, seq[i], seq[j]) < 0
               \/ /\ Comparator(filters, seq[i], seq[j]) = 0
                  /\ IndexOf(rows, seq[i]) < IndexOf(rows, seq[j])

\* slice((page - 1) * limit, page * limit) for a page and a limit of at least 1
Slice(seq, page, limit) ==
  SubSeq(seq, (page - 1) * limit + 1, Min(Len(seq), page * limit))

\* the object returned: the page with the other active skills of each
\* tasker, and the total
ServiceResult(serviceId, filters, processedResults) ==
  LET paginatedResults == Slice(processedResults, pageOf(filters), limitOf(filters)) IN
  [outcome |-> "ok", code |-> 200, message |-> <<>>,
   rows |-> [i \in DOMAIN paginatedResults |->
               [id |-> taskerSkills[paginatedResults[i]].taskerId,
                skill |-> paginatedResults[i],
                distance |-> DistanceOf(filters, paginatedResults[i]),
                skills |-> {k \in DOMAIN taskerSkills :
                              /\ taskerSkills[k].taskerId =
                                   taskerSkills[paginatedResults[i]].taskerId
                              /\ taskerSkills[k].serviceId \in DOMAIN services
                              /\ taskerSkills[k].serviceId # serviceId
                              /\ taskerSkills[k].isActive}]],
   total |-> Len(processedResults)]

\* the skill query, in the order the store returns the rows, and the
\* filter on the distance; without a date, the sort follows at once
TaskersForServiceQuery(p, serviceId, filters) ==
  /\ pc[p] = "idle"
  /\ UNCHANGED <<tables, tx, history>>
  /\ \E rows \in Orderings(ServiceQueryRows(serviceId, filters)) :
       LET kept == SelectSeq(rows, LAMBDA k : WithinRadius(filters, k)) IN
       IF filters.availability.set
         THEN /\ pc' = [pc EXCEPT ![p] = "taskersForServiceBusy"]
              /\ call' = [call EXCEPT ![p] =
                            [op |-> "getTaskersForService", serviceId |-> serviceId,
                             filters |-> filters, processedResults |-> kept]]
              /\ UNCHANGED res
         ELSE /\ pc' = [pc EXCEPT ![p] = "taskersForServiceEnrich"]
              /\ call' = [call EXCEPT ![p] =
                            [op |-> "getTaskersForService", serviceId |-> serviceId,
                             filters |-> filters,
                             processedResults |-> SortedResults(filters, kept)]]
              /\ UNCHANGED res

\* the booking query: taskers with a booking on the date that is neither
\* cancelled nor completed are dropped; then the sort
TaskersForServiceBusy(p) ==
  /\ pc[p] = "taskersForServiceBusy"
  /\ pc' = [pc EXCEPT ![p] = "taskersForServiceEnrich"]
  /\ LET busyTaskerIds ==
           {bookings[b].taskerId : b \in {x \in DOMAIN bookings :
              /\ bookings[x].taskerId \in
                   {taskerSkills[k].taskerId : k \in Range(call[p].processedResults)}
              /\ bookings[x].status \notin {"cancelled", "completed"}
              /\ bookings[x].startDay = call[p].filters.availability.v}}
         free == SelectSeq(call[p].processedResults,
                           LAMBDA k : taskerSkills[k].taskerId \notin busyTaskerIds)
     IN call' = [call EXCEPT ![p].processedResults = SortedResults(call[p].filters, free)]
  /\ UNCHANGED <<tables, tx, res, history>>

\* the page and the skill query of enrichTaskerData
TaskersForServiceEnrich(p) ==
  /\ pc[p] = "taskersForServiceEnrich"
  /\ pc' = [pc EXCEPT ![p] = "done"]
  /\ res' = [res EXCEPT ![p] =
               ServiceResult(call[p].serviceId, call[p].filters, call[p].processedResults)]
  /\ UNCHANGED <<tables, tx, call, history>>

\* a bookings row: its tasker, the day of its startTime and its status
BookingRow(taskerId, startDay, status) ==
  [taskerId |-> taskerId, startDay |-> startDay, status |-> status]

\* the locations the profiles of the service search point at: two with
\* coordinates, one without
ServiceLocations ==
  <<LocationRow("Lagos", [set |-> TRUE, v |-> 6], [set |-> TRUE, v |-> 3]),
    LocationRow("Kano", [set |-> TRUE, v |-> 12], [set |-> TRUE, v |-> 3]),
    LocationRow("Jos", NullCoordinate, NullCoordinate)>>

ServiceProfiles ==
  {[DefaultTasker(1) EXCEPT !.averageRating = [n |-> 9, d |-> 2],
                            !.totalTasksCompleted = 5, !.locationId = 1],
   [DefaultTasker(1) EXCEPT !.averageRating = [n |-> 4, d |-> 1],
                            !.totalTasksCompleted = 2, !.locationId = 2],
   DefaultTasker(1),
   [DefaultTasker(1) EXCEPT !.averageRating = [n |-> 3, d |-> 1],
                            !.totalTasksCompleted = 7, !.locationId = 3]}

ServiceSkills ==
  {<<SkillRow(1, 1, 10, TRUE), SkillRow(2, 1, 30, TRUE), SkillRow(3, 1, 20, TRUE),
     SkillRow(1, 2, 15, TRUE)>>,
   <<SkillRow(2, 1, 10, TRUE), SkillRow(3, 2, 20, TRUE)>>}

ServiceBookings ==
  {<<>>, <<BookingRow(1, 1, "confirmed"), BookingRow(2, 1, "cancelled")>>}

\* the filters requests carry: a page and a limit of at least 1
ServiceFilterInputs ==
  {NoFilters,
   [NoFilters EXCEPT !.order = Given("asc")],
   [NoFilters EXCEPT !.sort = Given("price")],
   [NoFilters EXCEPT !.sort = Given("price"), !.order = Given("asc"),
                     !.page = Given(2), !.limit = Given(1)],
   [NoFilters EXCEPT !.sort = Given("completedTasks")],
   [NoFilters EXCEPT !.sort = Given("completedTasks"), !.order = Given("asc")],
   [NoFilters EXCEPT !.location = [set |-> TRUE, latitude |-> 6, longitude |-> 3,
                                   radius |-> 100]],
   [NoFilters EXCEPT !.location = [set |-> TRUE, latitude |-> 6, longitude |-> 3,
                                   radius |-> 700],
                     !.sort = Given("distance"), !.order = Given("asc")],
   [NoFilters EXCEPT !.availability = Given(1)],
   [NoFilters EXCEPT !.minPrice = Given(15)],
   [NoFilters EXCEPT !.maxPrice = Given(15), !.page = Given(1), !.limit = Given(2)],
   [NoFilters EXCEPT !.minRating = Given(4)]}

InitTaskersForService ==
  /\ verifications = <<>>
  /\ verificationLogs = <<>>
  /\ taskers \in [SearchTaskerIds -> ServiceProfiles]
  /\ taskerSkills \in ServiceSkills
  /\ services = InitialServices
  /\ serviceCategories = <<>>
  /\ taskerPortfolio = <<>>
  /\ NoTaskRows
  /\ locations = ServiceLocations
  /\ bookings \in ServiceBookings
  /\ NoPaymentRows
  /\ pc = [p \in Procs |-> "idle"]
  /\ call = [p \in Procs |-> NoCall]
  /\ tx = [p \in Procs |-> NoTx]
  /\ res = [p \in Procs |-> NoResult]
  /\ ratingBase = [a |-> NullRat, c |-> 0]
  /\ ratingHistory = [i \in 1..MaxTaskers |-> <<>>]

NextTaskersForService ==
  \/ \E p \in SeqProcs, filters \in ServiceFilterInputs :
       TaskersForServiceQuery(p, 1, filters)
  \/ \E p \in SeqProcs : TaskersForServiceBusy(p)
  \/ \E p \in SeqProcs : TaskersForServiceEnrich(p)
  \/ \E p \in SeqProcs : Return(p)

SpecTaskersForService == InitTaskersForService /\ [][NextTaskersForService]_vars

\* C16: with a location filter, every tasker getTaskersForService returns
\* and counts in total has a location with coordinates and a distance within
\* the radius; a tasker with no location or no coordinates is dropped.
C16_UnlocatedDropped ==
  \A p \in Procs :
    (/\ pc[p] \in {"taskersForServiceBusy", "taskersForServiceEnrich", "done"}
     /\ call[p].op = "getTaskersForService"
     /\ call[p].filters.location.set) =>
      \A i \in DOMAIN call[p].processedResults :
        LET distance == DistanceOf(call[p].filters, call[p].processedResults[i]) IN
        /\ distance.set
        /\ distance.v <= call[p].filters.location.radius

\* the sort key of a result row, NULL ratings counting as 0
ServiceSortKey(sort, k) ==
  CASE sort = "rating" -> OrZero(taskers[taskerSkills[k].taskerId].averageRating)
    [] sort = "completedTasks" ->
         [n |-> taskers[taskerSkills[k].taskerId].totalTasksCompleted, d |-> 1]
    [] OTHER -> [n |-> taskerSkills[k].hourlyRate, d |-> 1]

\* C17: the list getTaskersForService produces is ordered by the sort key
\* in the direction asked for, rating and desc when nothing is asked for:
\* non-increasing keys for desc, non-decreasing for asc, for rating,
\* completedTasks and price; the page returned is the slice
\* [(page-1)*limit, page*limit) of that list.
C17_SortedAsRequested ==
  \A p \in Procs :
    (/\ pc[p] = "done"
     /\ call[p].op = "getTaskersForService"
     /\ ~(call[p].filters.sort.set /\ call[p].filters.sort.v = "distance")) =>
      LET filters == call[p].filters
          sort == IF filters.sort.set THEN filters.sort.v ELSE "rating"
          order == IF filters.order.set THEN filters.order.v ELSE "desc"
          list == call[p].processedResults
      IN /\ \A i, j \in DOMAIN list :
              i < j =>
                IF order = "asc"
                  THEN RatSign(ServiceSortKey(sort, list[i]),
                               ServiceSortKey(sort, list[j])) <= 0
                  ELSE RatSign(ServiceSortKey(sort, list[i]),
                               ServiceSortKey(sort, list[j])) >= 0
         /\ [i \in DOMAIN res[p].rows |-> res[p].rows[i].skill]
              = Slice(list, pageOf(filters), limitOf(filters))

(***************************************************************************)
(* findAll of modules/tasker, and a writer that deletes tasker rows while  *)
(* a search runs                                                           *)
(***************************************************************************)
\* the conditions pushed on taskerConditions by modules/tasker findAll
LegacyConditions(options) == taskerConditions(options) \ {"radius"}

\* the ids the WHERE clause keeps, for a request without category and rate
\* filters: the FROM clause is the taskers table alone
LegacyIds(options) ==
  {t \in DOMAIN taskers :
     \A c \in LegacyConditions(options) :
       ConditionHolds(c, options, [tasker |-> t, skill |-> 0])}

\* the store rejects the query: sort "rate" orders by a column of
\* tasker_skills, a table the FROM clause does not hold
LegacyQueryRejected(options) == sortOf(options) = "rate"

\* the orders in which the store may return the ids: the ORDER BY is
\* always sent
LegacyIdOrders(options) ==
  {seq \in Orderings(LegacyIds(options)) :
     \A i, j \in DOMAIN seq :
       i < j => ~SortsBefore(SortKey(options, seq[j]), SortKey(options, seq[i]),
                             orderOf(options))}

\* the page and the limit as supplied, and the offset
LegacyLimit(options) == IF options.limit.set THEN options.limit.v ELSE DefaultLimit

LegacyOffset(options) ==
  ((IF options.page.set THEN options.page.v ELSE DefaultPage) - 1) * LegacyLimit(options)

LegacyPageOf(seq, options) ==
  SubSeq(seq, LegacyOffset(options) + 1,
         Min(Len(seq), LegacyOffset(options) + LegacyLimit(options)))

\* what Map.get returns for a key the map does not hold
Undefined == [undefined |-> TRUE]

\* the id query
LegacyFindAllIdsQuery(p, options) ==
  /\ pc[p] = "idle"
  /\ UNCHANGED <<tables, tx, history>>
  /\ IF LegacyQueryRejected(options)
       THEN /\ pc' = [pc EXCEPT ![p] = "done"]
            /\ call' = [call EXCEPT ![p] = [op |-> "legacyFindAll", options |-> options]]
            /\ res' = [res EXCEPT ![p] = StoreFailure]
       ELSE \E seq \in LegacyIdOrders(options) :
              LET filteredTaskerIds == LegacyPageOf(seq, options) IN
              /\ call' = [call EXCEPT ![p] =
                            [op |-> "legacyFindAll", options |-> options,
                             limit |-> LegacyLimit(options),
                             offset |-> LegacyOffset(options),
                             filteredTaskerIds |-> filteredTaskerIds,
                             taskersById |-> <<>>, skills |-> <<>>]]
              /\ IF filteredTaskerIds = <<>>
                   THEN /\ pc' = [pc EXCEPT ![p] = "done"]
                        /\ res' = [res EXCEPT ![p] =
                                     [outcome |-> "ok", code |-> 200, message |-> <<>>,
                                      rows |-> <<>>]]
                   ELSE /\ pc' = [pc EXCEPT ![p] = "legacyTaskers"]
                        /\ UNCHANGED res

\* the full rows of the ids of the page
LegacyFindAllFetchTaskers(p) ==
  /\ pc[p] = "legacyTaskers"
  /\ pc' = [pc EXCEPT ![p] = "legacySkills"]
  /\ call' = [call EXCEPT ![p].taskersById =
                [id \in DOMAIN taskers \cap Range(call[p].filteredTaskerIds) |->
                   taskers[id]]]
  /\ UNCHANGED <<tables, tx, res, history>>

\* the active skills of the taskers of the page
LegacyFindAllFetchSkills(p) ==
  /\ pc[p] = "legacySkills"
  /\ pc' = [pc EXCEPT ![p] = "legacyPortfolio"]
  /\ call' = [call EXCEPT ![p].skills =
                [id \in DOMAIN call[p].taskersById |->
                   {k \in DOMAIN taskerSkills :
                      /\ taskerSkills[k].taskerId = id
                      /\ taskerSkills[k].isActive}]]
  /\ UNCHANGED <<tables, tx, res, history>>

\* the portfolio items of the page, then filteredTaskerIds.map over the
\* map of full rows
LegacyFindAllFetchPortfolio(p) ==
  /\ pc[p] = "legacyPortfolio"
  /\ pc' = [pc EXCEPT ![p] = "done"]
  /\ \E items \in PortfolioOrders(Range(call[p].filteredTaskerIds)) :
       LET ids == call[p].filteredTaskerIds
       IN res' = [res EXCEPT ![p] =
                    [outcome |-> "ok", code |-> 200, message |-> <<>>,
                     rows |-> [i \in DOMAIN ids |->
                                 IF ids[i] \in DOMAIN call[p].taskersById
                                   THEN [id |-> ids[i],
                                         tasker |-> call[p].taskersById[ids[i]],
                                         skills |-> call[p].skills[ids[i]],
                                         portfolioItems |->
                                           SelectSeq(items, LAMBDA it :
                                             taskerPortfolio[it].taskerId = ids[i])]
                                   ELSE Undefined]]]
  /\ UNCHANGED <<tables, tx, call, history>>

\* another writer deletes a tasker row; the foreign keys of tasker_skills,
\* tasker_portfolio, verifications and bookings refuse it while a row
\* references the tasker
DeleteTaskerRow(id) ==
  /\ id \in DOMAIN taskers
  /\ \A k \in DOMAIN taskerSkills : taskerSkills[k].taskerId # id
  /\ \A k \in DOMAIN taskerPortfolio : taskerPortfolio[k].taskerId # id
  /\ \A k \in DOMAIN verifications : verifications[k].taskerId # id
  /\ \A k \in DOMAIN bookings : bookings[k].taskerId # id
  /\ taskers' = [i \in DOMAIN taskers \ {id} |-> taskers[i]]
  /\ UNCHANGED <<notTaskerTables, pc, call, tx, res, history>>

\* the searches that run beside the writer
ConcurrentInputs ==
  {NoOptions,
   [NoOptions EXCEPT !.includeInactive = Given(TRUE)],
   [NoOptions EXCEPT !.includeInactive = Given(TRUE), !.sort = Given("completions"),
                     !.order = Given("asc")],
   [NoOptions EXCEPT !.includeInactive = Given(TRUE), !.page = Given(2),
                     !.limit = Given(1)],
   [NoOptions EXCEPT !.minRating = Given(4)],
   [NoOptions EXCEPT !.sort = Given("rate")]}

InitFindAllConcurrent ==
  /\ verifications = <<>>
  /\ verificationLogs = <<>>
  /\ taskers \in [SearchTaskerIds -> SearchProfiles]
  /\ taskerSkills \in SearchSkills
  /\ services = InitialServices
  /\ serviceCategories = <<>>
  /\ taskerPortfolio \in SearchPortfolios
  /\ NoTaskRows
  /\ locations = InitialLocations
  /\ bookings = <<>>
  /\ NoPaymentRows
  /\ pc = [p \in Procs |-> "idle"]
  /\ call = [p \in Procs |-> NoCall]
  /\ tx = [p \in Procs |-> NoTx]
  /\ res = [p \in Procs |-> NoResult]
  /\ ratingBase = [a |-> NullRat, c |-> 0]
  /\ ratingHistory = [i \in 1..MaxTaskers |-> <<>>]

NextFindAllConcurrent ==
  \/ \E p \in SeqProcs, options \in ConcurrentInputs : FindAllIdsQuery(p, options)
  \/ \E p \in SeqProcs : FindAllFetchTaskers(p)
  \/ \E p \in SeqProcs : FindAllFetchSkills(p)
  \/ \E p \in SeqProcs : FindAllFetchPortfolio(p)
  \/ \E p \in SeqProcs, options \in ConcurrentInputs : LegacyFindAllIdsQuery(p, options)
  \/ \E p \in SeqProcs : LegacyFindAllFetchTaskers(p)
  \/ \E p \in SeqProcs : LegacyFindAllFetchSkills(p)
  \/ \E p \in SeqProcs : LegacyFindAllFetchPortfolio(p)
  \/ \E id \in SearchTaskerIds : DeleteTaskerRow(id)
  \/ \E p \in SeqProcs : Return(p)

SpecFindAllConcurrent == InitFindAllConcurrent /\ [][NextFindAllConcurrent]_vars

\* C19: when a tasker row of the page is deleted after the id query of
\* findAll and before the fetch of the full rows, findAll completes without
\* error and returns the taskers that remain, in the order of the id query,
\* with no undefined element where the deleted one was.
C19_DeletedParentSkipped ==
  \A p \in Procs :
    (/\ pc[p] = "done"
     /\ call[p].op \in {"findAll", "legacyFindAll"}
     /\ "filteredTaskerIds" \in DOMAIN call[p]
     /\ call[p].filteredTaskerIds # <<>>
     /\ \E id \in Range(call[p].filteredTaskerIds) : id \notin DOMAIN call[p].taskersById) =>
      /\ res[p].outcome = "ok"
      /\ \A i \in DOMAIN res[p].rows : res[p].rows[i] # Undefined
      /\ LET remaining == SelectSeq(call[p].filteredTaskerIds,
                                    LAMBDA id : id \in DOMAIN call[p].taskersById)
         IN /\ Len(res[p].rows) = Len(remaining)
            /\ \A i \in DOMAIN remaining :
                 "id" \in DOMAIN res[p].rows[i] /\ res[p].rows[i].id = remaining[i]

(***************************************************************************)
(* TaskService.create                                                      *)
(***************************************************************************)
\* the tables no TaskService.create statement touches
notTaskTables == <<verifications, verificationLogs, taskers, taskerSkills, services,
                   serviceCategories, taskerPortfolio, locations, bookings,
                   payments, paymentMethods, refunds, history>>

\* the rows built from the questions or faqs supplied, each given by its
\* displayOrder: displayOrder || index
ChildRows(taskId, supplied) ==
  [i \in DOMAIN supplied |->
     ChildRow(taskId, IF supplied[i] # 0 THEN supplied[i] ELSE i - 1)]

\* rows inserted on the store outside the transaction: committed at once
TaskTxInsertOnDb(committed, rows) == committed \o rows

\* what tx.insert(...).values(rows) does to the committed table before
\* the transaction commits: nothing
TaskTxInsert(committed, rows) == committed

\* the writes a create transaction has staged
TaskTx(task, questions, faqs) == [task |-> task, questions |-> questions, faqs |-> faqs]

\* slugify, the select by slug and the early throw
TaskCreate(p, name, questions, faqs) ==
  /\ pc[p] = "idle"
  /\ Len(tasks) < MaxTasks
  /\ call' = [call EXCEPT ![p] =
                [op |-> "create", name |-> name, questions |-> questions,
                 faqs |-> faqs, failed |-> ""]]
  /\ IF \E i \in DOMAIN tasks : tasks[i].slug = slugify(name)
       THEN /\ pc' = [pc EXCEPT ![p] = "done"]
            /\ res' = [res EXCEPT ![p] =
                         AppError("Task with similar name already exists", 400)]
       ELSE /\ pc' = [pc EXCEPT ![p] = "createTask"]
            /\ UNCHANGED res
  /\ UNCHANGED <<tables, tx, history>>

\* the statement a create call is about to issue, none when the questions
\* or faqs it would insert were not supplied
CreateStatementDue(p) ==
  \/ pc[p] \in {"createTask", "createFindById", "createCommit"}
  \/ pc[p] = "createQuestions" /\ call[p].questions # <<>>
  \/ pc[p] = "createFaqs" /\ call[p].faqs # <<>>

\* a statement of the transaction, findById or the commit throws: the
\* transaction rolls back and the error propagates
TaskCreateTxFail(p) ==
  /\ CreateStatementDue(p)
  /\ pc' = [pc EXCEPT ![p] = "done"]
  /\ call' = [call EXCEPT ![p].failed = pc[p]]
  /\ tx' = [tx EXCEPT ![p] = NoTx]
  /\ res' = [res EXCEPT ![p] = StoreFailure]
  /\ UNCHANGED <<tables, history>>

\* tx.insert(tasks).values({...data, slug}).returning()
TaskCreateTxTask(p) ==
  /\ pc[p] = "createTask"
  /\ LET task == TaskRow(call[p].name, 1, Len(tasks) + 1, TRUE) IN
       /\ tx' = [tx EXCEPT ![p] = TaskTx(<<task>>, <<>>, <<>>)]
       /\ tasks' = TaskTxInsert(tasks, <<task>>)
  /\ pc' = [pc EXCEPT ![p] = "createQuestions"]
  /\ UNCHANGED <<notTaskTables, taskQuestions, taskFaqs, call, res>>

\* tx.insert(taskQuestions) when questions were supplied
TaskCreateTxQuestions(p) ==
  /\ pc[p] = "createQuestions"
  /\ LET rows == ChildRows(Len(tasks) + 1, call[p].questions) IN
       /\ tx' = [tx EXCEPT ![p].questions = rows]
       /\ taskQuestions' = TaskTxInsert(taskQuestions, rows)
  /\ pc' = [pc EXCEPT ![p] = "createFaqs"]
  /\ UNCHANGED <<notTaskTables, tasks, taskFaqs, call, res>>

\* tx.insert(taskFaqs) when faqs were supplied
TaskCreateTxFaqs(p) ==
  /\ pc[p] = "createFaqs"
  /\ LET rows == ChildRows(Len(tasks) + 1, call[p].faqs) IN
       /\ tx' = [tx EXCEPT ![p].faqs = rows]
       /\ taskFaqs' = TaskTxInsert(taskFaqs, rows)
  /\ pc' = [pc EXCEPT ![p] = "createFindById"]
  /\ UNCHANGED <<notTaskTables, tasks, taskQuestions, call, res>>

\* this.findById(task.id): a read through db, which sees committed rows
TaskCreateFindById(p) ==
  /\ pc[p] = "createFindById"
  /\ res' = [res EXCEPT ![p] =
               IF Len(tasks) + 1 \in DOMAIN tasks THEN OkResult ELSE UndefinedResult]
  /\ pc' = [pc EXCEPT ![p] = "createCommit"]
  /\ UNCHANGED <<tables, tx, call, history>>

\* the callback returns: the staged rows commit together
TaskCreateTxCommit(p) ==
  /\ pc[p] = "createCommit"
  /\ tasks' = tasks \o tx[p].task
  /\ taskQuestions' = taskQuestions \o tx[p].questions
  /\ taskFaqs' = taskFaqs \o tx[p].faqs
  /\ tx' = [tx EXCEPT ![p] = NoTx]
  /\ pc' = [pc EXCEPT ![p] = "done"]
  /\ UNCHANGED <<notTaskTables, call, res>>

\* the questions and faqs requests carry, each by its displayOrder
SuppliedInputs == {<<>>, <<0, 0>>, <<2, 1>>}

InitTaskCreate ==
  /\ verifications = <<>>
  /\ verificationLogs = <<>>
  /\ taskers = InitialTaskers
  /\ taskerSkills = <<>>
  /\ services = InitialServices
  /\ serviceCategories = <<>>
  /\ taskerPortfolio = <<>>
  /\ NoTaskRows
  /\ locations = InitialLocations
  /\ bookings = <<>>
  /\ NoPaymentRows
  /\ pc = [p \in Procs |-> "idle"]
  /\ call = [p \in Procs |-> NoCall]
  /\ tx = [p \in Procs |-> NoTx]
  /\ res = [p \in Procs |-> NoResult]
  /\ ratingBase = [a |-> NullRat, c |-> 0]
  /\ ratingHistory = [i \in 1..MaxTaskers |-> <<>>]

NextTaskCreate ==
  \/ \E p \in SeqProcs, name \in NameInputs, questions \in SuppliedInputs,
        faqs \in SuppliedInputs : TaskCreate(p, name, questions, faqs)
  \/ \E p \in SeqProcs : TaskCreateTxFail(p)
  \/ \E p \in SeqProcs : TaskCreateTxTask(p)
  \/ \E p \in SeqProcs : TaskCreateTxQuestions(p)
  \/ \E p \in SeqProcs : TaskCreateTxFaqs(p)
  \/ \E p \in SeqProcs : TaskCreateFindById(p)
  \/ \E p \in SeqProcs : TaskCreateTxCommit(p)
  \/ \E p \in SeqProcs : Return(p)

SpecTaskCreate == InitTaskCreate /\ [][NextTaskCreate]_vars

\* a create call is between the start of its transaction and its end
InCreateTransaction(p) ==
  pc[p] \in {"createTask", "createQuestions", "createFaqs", "createFindById",
             "createCommit"}

\* C20: every step of a TaskService.create call either leaves the tasks,
\* questions and FAQs tables as they are (also when an insert fails) or
\* commits the task row, all the question rows supplied and all the FAQ rows
\* supplied together; after a failed insert no row of the call is stored.
C20_CreateAllOrNothing ==
  [][\A p \in Procs :
       InCreateTransaction(p)
         => \/ UNCHANGED <<tasks, taskQuestions, taskFaqs>>
            \/ /\ pc'[p] = "done"
               /\ res'[p] # StoreFailure
               /\ Len(tasks') = Len(tasks) + 1
               /\ tasks'[Len(tasks')].slug = slugify(call[p].name)
               /\ taskQuestions' =
                    taskQuestions \o ChildRows(Len(tasks'), call[p].questions)
               /\ taskFaqs' = taskFaqs \o ChildRows(Len(tasks'), call[p].faqs)]_vars

\* a create call whose FAQ insert failed after its task and its questions
\* were inserted has ended, and no row of it is stored
C20_Witness ==
  \E p \in Procs :
    /\ pc[p] = "done"
    /\ call[p].op = "create"
    /\ call[p].failed = "createFaqs"
    /\ call[p].questions # <<>>
    /\ res[p] = StoreFailure
    /\ \A i \in DOMAIN tasks : tasks[i].slug # slugify(call[p].name)
    /\ \A i \in DOMAIN taskQuestions : taskQuestions[i].taskId \in DOMAIN tasks
    /\ \A i \in DOMAIN taskFaqs : taskFaqs[i].taskId \in DOMAIN tasks

(***************************************************************************)
(* Verifications: one open verification per tasker and type                *)
(***************************************************************************)
\* C26: in every state reached through create and updateStatus, each pair
\* of a tasker and a verification type has at most one verification whose
\* status is pending or in_review.
C26_OneOpenVerification ==
  \A i, j \in DOMAIN verifications :
    (/\ verifications[i].taskerId = verifications[j].taskerId
     /\ verifications[i].type = verifications[j].type
     /\ verifications[i].status \in {"pending", "in_review"}
     /\ verifications[j].status \in {"pending", "in_review"}) => i = j

(***************************************************************************)
(* Verifications: updateStatus calls that overlap                          *)
(***************************************************************************)
\* one verification of tasker 1 that a reviewer has taken up, with the log
\* entries of its creation and of its move to in_review
InitVerificationReview ==
  /\ verifications = <<[taskerId |-> 1, type |-> "nin", status |-> "in_review"]>>
  /\ verificationLogs = <<LogRow(1, "pending"), LogRow(1, "in_review")>>
  /\ taskers = InitialTaskers
  /\ pc = [p \in Procs |-> "idle"]
  /\ call = [p \in Procs |-> NoCall]
  /\ tx = [p \in Procs |-> NoTx]
  /\ res = [p \in Procs |-> NoResult]
  /\ ratingBase = [a |-> NullRat, c |-> 0]
  /\ ratingHistory = [i \in 1..MaxTaskers |-> <<>>]
  /\ taskerSkills = <<>>
  /\ services = InitialServices
  /\ serviceCategories = <<>>
  /\ taskerPortfolio = <<>>
  /\ NoTaskRows
  /\ locations = InitialLocations
  /\ bookings = <<>>
  /\ NoPaymentRows

\* the calls of the two callers interleave statement by statement
NextVerification ==
  \/ \E p \in Procs, id \in DOMAIN verifications, s \in verificationStatuses :
       UpdateStatusCall(p, id, s)
  \/ \E p \in Procs : UpdateStatusFindById(p)
  \/ \E p \in Procs : UpdateStatusTxFail(p)
  \/ \E p \in Procs : UpdateStatusTxUpdate(p)
  \/ \E p \in Procs : UpdateStatusTxLog(p)
  \/ \E p \in Procs : UpdateStatusTxTasker(p)
  \/ \E p \in Procs : UpdateStatusTxCommit(p)
  \/ \E p \in Procs : Return(p)

SpecVerification == InitVerificationReview /\ [][NextVerification]_vars

\* C23: when updateStatus calls for one verification overlap, every status
\* change that commits is an allowed change from the status committed just
\* before it, so a committed verified is never changed again; and when no
\* call is in flight, no tasker has identityVerified while the one
\* verification that set it is rejected.
C23_OverlapKeepsTransitionsLegal ==
  /\ [][\A id \in DOMAIN verifications :
          verifications'[id].status # verifications[id].status
            => <<verifications[id].status, verifications'[id].status>> \in AllowedChanges]_vars
  /\ [](\A id \in DOMAIN verifications :
          (/\ \A p \in Procs : pc[p] \in {"idle", "done"}
           /\ verifications[id].status = "rejected"
           /\ \A other \in DOMAIN verifications \ {id} :
                verifications[other].taskerId # verifications[id].taskerId)
            => ~taskers[verifications[id].taskerId].identityVerified)

(***************************************************************************)
(* TaskService.create: the value returned                                  *)
(***************************************************************************)
\* C27: a create call that commits returns the task it created with the
\* questions and FAQs it inserted, never undefined.
C27_CreateReturnsTask ==
  \A p \in Procs :
    (/\ pc[p] = "done"
     /\ call[p].op = "create"
     /\ call[p].failed = ""
     /\ \E i \in DOMAIN tasks : tasks[i].slug = slugify(call[p].name)
     /\ res[p].outcome # "error") => res[p] = OkResult

(***************************************************************************)
(* TaskService.update and TaskService.delete                               *)
(* A deleted row keeps its place in its table as a blank row: the serial   *)
(* of the table does not hand its id out again.                            *)
(***************************************************************************)
DeletedTask == [TaskRow(<<>>, 0, 0, FALSE) EXCEPT !.locationId = 0]

DeletedChild == ChildRow(0, 0)

TaskExists(id) == id \in DOMAIN tasks /\ tasks[id] # DeletedTask

\* the committed table of questions or of FAQs
ChildTable(kind) == IF kind = "questions" THEN taskQuestions ELSE taskFaqs

\* the ids of the committed rows of a task in one of the two tables
ChildrenOf(kind, id) ==
  {c \in DOMAIN ChildTable(kind) : id # 0 /\ ChildTable(kind)[c].taskId = id}

\* an entry of the questions or faqs of an update: id 0 stands for no id
Entry(id, displayOrder) == [id |-> id, displayOrder |-> displayOrder]

\* existingQuestionIds, existingFaqIds: the ids the entries carry
existingIds(entries) ==
  LET withId == SelectSeq(entries, LAMBDA e : e.id # 0)
  IN [i \in DOMAIN withId |-> withId[i].id]

\* the store refuses NOT IN (${ids.join(",")}): the joined ids are bound as
\* one text parameter, which is an integer only when one id was joined
NotInRefused(ids) == Len(ids) > 1

\* the rows the delete of an update removes: those of the task whose id is
\* not listed, all of them when no entry carries an id
RowsToDelete(kind, id, entries) == ChildrenOf(kind, id) \ Range(existingIds(entries))

\* the rows one update statement matches without the condition on taskId
UpdateTargetsAnyTask(kind, id, entryId) ==
  {c \in DOMAIN ChildTable(kind) : c = entryId /\ ChildTable(kind)[c] # DeletedChild}

\* the rows one update statement matches: the id of the entry and the task
UpdateTargets(kind, id, entryId) ==
  {c \in ChildrenOf(kind, id) : c = entryId}

\* questionsToUpdate, faqsToUpdate against the table: the displayOrder each
\* matched row is set to, the index of the entry when it carries none
RowsToUpdate(kind, id, entries) ==
  {[id |-> c, displayOrder |-> IF entries[i].displayOrder.set
                                 THEN entries[i].displayOrder.v ELSE i - 1] :
     <<i, c>> \in {x \in (DOMAIN entries) \X (DOMAIN ChildTable(kind)) :
                     /\ entries[x[1]].id # 0
                     /\ x[2] \in UpdateTargets(kind, id, entries[x[1]].id)}}

\* questionsToCreate, faqsToCreate: displayOrder || index
RowsToCreate(id, entries) ==
  LET positions == SelectSeq([i \in DOMAIN entries |-> i],
                             LAMBDA i : entries[i].id = 0)
  IN [k \in DOMAIN positions |->
        ChildRow(id, IF TruthyNumber(entries[positions[k]].displayOrder)
                       THEN entries[positions[k]].displayOrder.v
                       ELSE positions[k] - 1)]

\* the writes a transaction has staged on one of the two child tables
NoChildWrites == [deleted |-> {}, updated |-> {}, inserted |-> <<>>]

\* the staged writes applied to the committed table at the commit
ApplyChildWrites(table, w) ==
  [c \in DOMAIN table |->
     IF c \in w.deleted \/ table[c] = DeletedChild THEN DeletedChild
     ELSE IF \E u \in w.updated : u.id = c
       THEN [table[c] EXCEPT !.displayOrder =
               (CHOOSE u \in w.updated : u.id = c).displayOrder]
     ELSE table[c]] \o w.inserted

\* another transaction has written the task row and not ended: a statement
\* that writes the row waits for it
RowLockedByOther(p, id) ==
  \E q \in Procs \ {p} : "locked" \in DOMAIN tx[q] /\ tx[q].locked = id

\* the entries of the child table the call is working on
Entries(p) == IF call[p].kind = "questions" THEN call[p].questions ELSE call[p].faqs

\* another transaction has deleted or updated one of the rows and not
\* ended: a statement that writes the row waits for it
ChildLockedByOther(p, kind, rows) ==
  \E q \in Procs \ {p} :
    /\ "locked" \in DOMAIN tx[q]
    /\ rows \cap (tx[q][kind].deleted \cup {u.id : u \in tx[q][kind].updated}) # {}

\* the rows a statement works on: those it matched when it was issued;
\* rows committed while it waited are not among them
Seen(p, rows) == IF call[p].seen = 0 THEN rows ELSE {c \in rows : c <= call[p].seen}

\* the child rows the statement the call is about to issue writes
StatementTargets(p) ==
  IF pc[p] = "updDelete" /\ Entries(p) # <<>> /\ ~NotInRefused(existingIds(Entries(p)))
    THEN Seen(p, RowsToDelete(call[p].kind, call[p].id, Entries(p)))
  ELSE IF pc[p] = "updUpdate"
    THEN Seen(p, {u.id : u \in RowsToUpdate(call[p].kind, call[p].id, Entries(p))})
  ELSE IF pc[p] = "delChildren"
    THEN Seen(p, ChildrenOf(call[p].kind, call[p].id))
  ELSE {}

\* the statement the call is about to issue waits for a row lock
WaitsForLock(p) ==
  \/ pc[p] \in {"updTask", "delTask"} /\ RowLockedByOther(p, call[p].id)
  \/ /\ pc[p] \in {"updDelete", "updUpdate", "delChildren"}
     /\ ChildLockedByOther(p, call[p].kind, StatementTargets(p))

\* the foreign keys of task_questions and task_faqs refuse the delete of a
\* task row that a committed child row, not deleted by the transaction
\* itself, references
ForeignKeyUnchecked(id, questionsDeleted, faqsDeleted) == FALSE

ForeignKeyRefuses(id, questionsDeleted, faqsDeleted) ==
  \/ ChildrenOf("questions", id) \ questionsDeleted # {}
  \/ ChildrenOf("faqs", id) \ faqsDeleted # {}

\* the writes a transaction of update or delete has staged
NoTaskWrites ==
  [locked |-> 0, deleteTask |-> FALSE, name |-> Absent, slug |-> Absent,
   questions |-> NoChildWrites, faqs |-> NoChildWrites]

\* the slug an update without a slug generates from the name: the slugified
\* name, with the id appended when another task has it
GeneratedSlug(id, name) ==
  IF ~Truthy(name) THEN Absent
  ELSE IF \E t \in DOMAIN tasks \ {id} : tasks[t].slug = slugify(name.v)
    THEN Given(WithIdSuffix(slugify(name.v), id))
  ELSE Given(slugify(name.v))

\* update is entered for a request that carries no slug: the select by the
\* generated slug
TaskUpdate(p, id, name, questions, faqs) ==
  /\ pc[p] = "idle"
  /\ Len(taskQuestions) < MaxChildren
  /\ Len(taskFaqs) < MaxChildren
  /\ pc' = [pc EXCEPT ![p] = "updTask"]
  /\ call' = [call EXCEPT ![p] =
                [op |-> "update", id |-> id, name |-> name,
                 slug |-> GeneratedSlug(id, name), questions |-> questions,
                 faqs |-> faqs, kind |-> "questions", seen |-> 0, failed |-> ""]]
  /\ UNCHANGED <<tables, tx, res, history>>

\* a statement of the transaction or the commit throws: the transaction
\* rolls back and the error propagates
TaskWriteTxFail(p) ==
  /\ \/ pc[p] \in {"updFindById", "updCommit", "delChildren", "delCommit"}
     \/ pc[p] \in {"updDelete", "updInsert"} /\ Entries(p) # <<>>
  /\ pc' = [pc EXCEPT ![p] = "done"]
  /\ call' = [call EXCEPT ![p].failed = pc[p]]
  /\ tx' = [tx EXCEPT ![p] = NoTx]
  /\ res' = [res EXCEPT ![p] = StoreFailure]
  /\ UNCHANGED <<tables, history>>

\* tx.update(tasks).set(data).where(id).returning(), after any transaction
\* that holds the row has ended; no row: the callback returns undefined.
\* The unique index on slug refuses a slug another task has.
TaskUpdateTxTask(p) ==
  /\ pc[p] = "updTask"
  /\ ~RowLockedByOther(p, call[p].id)
  /\ UNCHANGED <<tables, history>>
  /\ IF ~TaskExists(call[p].id)
       THEN /\ pc' = [pc EXCEPT ![p] = "done"]
            /\ res' = [res EXCEPT ![p] = UndefinedResult]
            /\ UNCHANGED <<tx, call>>
     ELSE IF /\ call[p].slug.set
             /\ \E t \in DOMAIN tasks \ {call[p].id} : tasks[t].slug = call[p].slug.v
       THEN /\ pc' = [pc EXCEPT ![p] = "done"]
            /\ res' = [res EXCEPT ![p] = StoreFailure]
            /\ call' = [call EXCEPT ![p].failed = "updTask"]
            /\ UNCHANGED tx
     ELSE /\ pc' = [pc EXCEPT ![p] = "updDelete"]
          /\ tx' = [tx EXCEPT ![p] =
                      [NoTaskWrites EXCEPT !.locked = call[p].id,
                                           !.name = call[p].name,
                                           !.slug = call[p].slug]]
          /\ UNCHANGED <<call, res>>

\* the child table after this one, or findById after the FAQs
AfterKind(p) ==
  /\ pc' = [pc EXCEPT ![p] = IF call[p].kind = "questions" THEN "updDelete"
                             ELSE "updFindById"]
  /\ call' = [call EXCEPT ![p].kind = "faqs", ![p].seen = 0]

\* a statement on a child table finds a row locked and waits, on the rows
\* it has matched
TaskStatementWaits(p) ==
  /\ pc[p] \in {"updDelete", "updUpdate", "delChildren"}
  /\ call[p].seen = 0
  /\ WaitsForLock(p)
  /\ call' = [call EXCEPT ![p].seen = Len(ChildTable(call[p].kind))]
  /\ UNCHANGED <<tables, pc, tx, res, history>>

\* two transactions wait for a row lock of each other: the store ends one
\* of them with an error
TaskWriteDeadlock(p) ==
  /\ WaitsForLock(p)
  /\ \E q \in Procs \ {p} : WaitsForLock(q)
  /\ pc' = [pc EXCEPT ![p] = "done"]
  /\ call' = [call EXCEPT ![p].failed = "deadlock"]
  /\ tx' = [tx EXCEPT ![p] = NoTx]
  /\ res' = [res EXCEPT ![p] = StoreFailure]
  /\ UNCHANGED <<tables, history>>

\* the delete of the rows that are not listed; nothing for an empty list
TaskUpdateTxDelete(p) ==
  /\ pc[p] = "updDelete"
  /\ UNCHANGED <<tables, history>>
  /\ IF Entries(p) = <<>>
       THEN AfterKind(p) /\ UNCHANGED <<tx, res>>
     ELSE IF NotInRefused(existingIds(Entries(p)))
       THEN /\ pc' = [pc EXCEPT ![p] = "done"]
            /\ res' = [res EXCEPT ![p] = StoreFailure]
            /\ call' = [call EXCEPT ![p].failed = "updDelete"]
            /\ tx' = [tx EXCEPT ![p] = NoTx]
     ELSE /\ ~WaitsForLock(p)
          /\ pc' = [pc EXCEPT ![p] = "updUpdate"]
          /\ tx' = [tx EXCEPT ![p][call[p].kind].deleted = StatementTargets(p)]
          /\ call' = [call EXCEPT ![p].seen = 0]
          /\ UNCHANGED res

\* the loop over questionsToUpdate or faqsToUpdate: after the delete has
\* succeeded it holds one entry at most
TaskUpdateTxUpdate(p) ==
  /\ pc[p] = "updUpdate"
  /\ ~WaitsForLock(p)
  /\ pc' = [pc EXCEPT ![p] = "updInsert"]
  /\ tx' = [tx EXCEPT ![p][call[p].kind].updated =
              {u \in RowsToUpdate(call[p].kind, call[p].id, Entries(p)) :
                 u.id \in StatementTargets(p)}]
  /\ call' = [call EXCEPT ![p].seen = 0]
  /\ UNCHANGED <<tables, res, history>>

\* the insert of the entries without an id
TaskUpdateTxInsert(p) ==
  /\ pc[p] = "updInsert"
  /\ AfterKind(p)
  /\ tx' = [tx EXCEPT ![p][call[p].kind].inserted =
              RowsToCreate(call[p].id, Entries(p))]
  /\ UNCHANGED <<tables, res, history>>

\* what findById reads through db: the committed task and its children
FoundTask(id) ==
  IF TaskExists(id)
    THEN [outcome |-> "ok", code |-> 200, message |-> <<>>, task |-> tasks[id],
          questions |-> {taskQuestions[c] : c \in ChildrenOf("questions", id)},
          faqs |-> {taskFaqs[c] : c \in ChildrenOf("faqs", id)}]
    ELSE UndefinedResult

\* this.findById(id) at the end of the callback of update
TaskUpdateFindById(p) ==
  /\ pc[p] = "updFindById"
  /\ pc' = [pc EXCEPT ![p] = "updCommit"]
  /\ res' = [res EXCEPT ![p] = FoundTask(call[p].id)]
  /\ UNCHANGED <<tables, tx, call, history>>

\* the callback of update returns: the staged writes commit together
TaskUpdateTxCommit(p) ==
  /\ pc[p] = "updCommit"
  /\ pc' = [pc EXCEPT ![p] = "done"]
  /\ tasks' = [tasks EXCEPT ![call[p].id] =
                 [@ EXCEPT !.name = IF tx[p].name.set THEN tx[p].name.v ELSE @,
                           !.slug = IF tx[p].slug.set THEN tx[p].slug.v ELSE @]]
  /\ taskQuestions' = ApplyChildWrites(taskQuestions, tx[p].questions)
  /\ taskFaqs' = ApplyChildWrites(taskFaqs, tx[p].faqs)
  /\ tx' = [tx EXCEPT ![p] = NoTx]
  /\ UNCHANGED <<notTaskTables, call, res>>

\* delete is entered and its transaction begins
TaskDelete(p, id) ==
  /\ pc[p] = "idle"
  /\ pc' = [pc EXCEPT ![p] = "delChildren"]
  /\ call' = [call EXCEPT ![p] = [op |-> "delete", id |-> id, kind |-> "questions",
                                  seen |-> 0, failed |-> ""]]
  /\ tx' = [tx EXCEPT ![p] = NoTaskWrites]
  /\ UNCHANGED <<tables, res, history>>

\* tx.delete(taskQuestions), then tx.delete(taskFaqs), where taskId = id
TaskDeleteTxChildren(p) ==
  /\ pc[p] = "delChildren"
  /\ ~WaitsForLock(p)
  /\ tx' = [tx EXCEPT ![p][call[p].kind].deleted = StatementTargets(p)]
  /\ pc' = [pc EXCEPT ![p] = IF call[p].kind = "questions" THEN "delChildren"
                             ELSE "delTask"]
  /\ call' = [call EXCEPT ![p].kind = "faqs", ![p].seen = 0]
  /\ UNCHANGED <<tables, res, history>>

\* tx.delete(tasks).where(id).returning(), after any transaction that
\* holds the row has ended
TaskDeleteTxTask(p) ==
  /\ pc[p] = "delTask"
  /\ ~RowLockedByOther(p, call[p].id)
  /\ UNCHANGED <<tables, history>>
  /\ IF ~TaskExists(call[p].id)
       THEN /\ pc' = [pc EXCEPT ![p] = "delCommit"]
            /\ UNCHANGED <<tx, call, res>>
     ELSE IF ForeignKeyRefuses(call[p].id, tx[p].questions.deleted, tx[p].faqs.deleted)
       THEN /\ pc' = [pc EXCEPT ![p] = "done"]
            /\ res' = [res EXCEPT ![p] = StoreFailure]
            /\ call' = [call EXCEPT ![p].failed = "delTask"]
            /\ tx' = [tx EXCEPT ![p] = NoTx]
     ELSE /\ pc' = [pc EXCEPT ![p] = "delCommit"]
          /\ tx' = [tx EXCEPT ![p].locked = call[p].id, ![p].deleteTask = TRUE]
          /\ UNCHANGED <<call, res>>

\* the callback of delete returns result.length > 0: the deletes commit
TaskDeleteTxCommit(p) ==
  /\ pc[p] = "delCommit"
  /\ pc' = [pc EXCEPT ![p] = "done"]
  /\ tasks' = IF tx[p].deleteTask THEN [tasks EXCEPT ![call[p].id] = DeletedTask]
              ELSE tasks
  /\ taskQuestions' = ApplyChildWrites(taskQuestions, tx[p].questions)
  /\ taskFaqs' = ApplyChildWrites(taskFaqs, tx[p].faqs)
  /\ res' = [res EXCEPT ![p] =
               [OkResult EXCEPT !.message =
                  IF tx[p].deleteTask THEN <<"true">> ELSE <<"false">>]]
  /\ tx' = [tx EXCEPT ![p] = NoTx]
  /\ UNCHANGED <<notTaskTables, call>>

\* the stored tasks the updates and deletes work on: two tasks, three
\* questions and two FAQs
InitialTasks == <<TaskRow(<<"g">>, 1, 1, TRUE), TaskRow(<<"h">>, 1, 2, TRUE)>>

InitialQuestions == <<ChildRow(1, 0), ChildRow(1, 1), ChildRow(2, 4)>>

InitialFaqs == <<ChildRow(1, 0), ChildRow(2, 0)>>

\* the questions and faqs an update carries: none, a new entry, an entry
\* of the task with a new entry, the id of a row of task 2, two ids
UpdateEntryInputs ==
  {<<>>,
   <<Entry(0, UnsetNumber)>>,
   <<Entry(1, Given(5)), Entry(0, Given(0)), Entry(0, Given(7))>>,
   <<Entry(3, UnsetNumber)>>,
   <<Entry(1, UnsetNumber), Entry(2, UnsetNumber)>>}

InitTaskWrites ==
  /\ verifications = <<>>
  /\ verificationLogs = <<>>
  /\ taskers = InitialTaskers
  /\ taskerSkills = <<>>
  /\ services = InitialServices
  /\ serviceCategories = <<>>
  /\ taskerPortfolio = <<>>
  /\ tasks = InitialTasks
  /\ taskQuestions = InitialQuestions
  /\ taskFaqs = InitialFaqs
  /\ locations = InitialLocations
  /\ bookings = <<>>
  /\ NoPaymentRows
  /\ pc = [p \in Procs |-> "idle"]
  /\ call = [p \in Procs |-> NoCall]
  /\ tx = [p \in Procs |-> NoTx]
  /\ res = [p \in Procs |-> NoResult]
  /\ ratingBase = [a |-> NullRat, c |-> 0]
  /\ ratingHistory = [i \in 1..MaxTaskers |-> <<>>]

\* updates and deletes that do not overlap
NextTaskWritesSeq ==
  \/ \E p \in SeqProcs, id \in 1..3, name \in {Absent, Given(<<"h">>)},
        questions \in UpdateEntryInputs, faqs \in UpdateEntryInputs :
       TaskUpdate(p, id, name, questions, faqs)
  \/ \E p \in SeqProcs : TaskWriteTxFail(p)
  \/ \E p \in SeqProcs : TaskUpdateTxTask(p)
  \/ \E p \in SeqProcs : TaskUpdateTxDelete(p)
  \/ \E p \in SeqProcs : TaskUpdateTxUpdate(p)
  \/ \E p \in SeqProcs : TaskUpdateTxInsert(p)
  \/ \E p \in SeqProcs : TaskUpdateFindById(p)
  \/ \E p \in SeqProcs : TaskUpdateTxCommit(p)
  \/ \E p \in SeqProcs, id \in 1..3 : TaskDelete(p, id)
  \/ \E p \in SeqProcs : TaskDeleteTxChildren(p)
  \/ \E p \in SeqProcs : TaskDeleteTxTask(p)
  \/ \E p \in SeqProcs : TaskDeleteTxCommit(p)
  \/ \E p \in SeqProcs : Return(p)

SpecTaskWritesSeq == InitTaskWrites /\ [][NextTaskWritesSeq]_vars

\* C21: when an update of a task with a non-empty questions list commits,
\* the questions of the task are the listed entries whose id belonged to
\* the task, kept in place, and one new row per entry without an id; every
\* other former question of the task is deleted, and no row of another
\* task changes, whether or not its id is listed. The same for faqs.
C21_ChildrenReplaced ==
  [][\A p \in Procs :
       (pc[p] = "updCommit" /\ pc'[p] = "done" /\ call'[p].failed = "") =>
         \A kind \in {"questions", "faqs"} :
           LET entries == call[p][kind]
               id == call[p].id
               old == ChildTable(kind)
               new == ChildTable(kind)'
               kept == {c \in ChildrenOf(kind, id) :
                          \E i \in DOMAIN entries : entries[i].id = c}
               created == Len(SelectSeq(entries, LAMBDA e : e.id = 0))
           IN entries # <<>> =>
                /\ Len(new) = Len(old) + created
                /\ \A c \in DOMAIN old :
                     IF c \in kept THEN new[c].taskId = id
                     ELSE IF c \in ChildrenOf(kind, id) THEN new[c] = DeletedChild
                     ELSE new[c] = old[c]
                /\ \A c \in (Len(old) + 1)..Len(new) : new[c].taskId = id]_vars

\* an update of task 1 has committed that kept question 1, deleted
\* question 2 and added two questions
C21_Witness ==
  \E p \in Procs :
    /\ pc[p] = "done"
    /\ call[p].op = "update"
    /\ call[p].failed = ""
    /\ call[p].id = 1
    /\ res[p].outcome = "ok"
    /\ Len(call[p].questions) = 3
    /\ taskQuestions[1] = ChildRow(1, 5)
    /\ taskQuestions[2] = DeletedChild
    /\ taskQuestions[3] = ChildRow(2, 4)
    /\ Len(taskQuestions) = 5

(***************************************************************************)
(* TaskService.create, update and delete, overlapping                      *)
(***************************************************************************)
\* one stored task with a question and a FAQ
InitTaskWritesConcurrent ==
  /\ verifications = <<>>
  /\ verificationLogs = <<>>
  /\ taskers = InitialTaskers
  /\ taskerSkills = <<>>
  /\ services = InitialServices
  /\ serviceCategories = <<>>
  /\ taskerPortfolio = <<>>
  /\ tasks = <<TaskRow(<<"g">>, 1, 1, TRUE)>>
  /\ taskQuestions = <<ChildRow(1, 0)>>
  /\ taskFaqs = <<ChildRow(1, 0)>>
  /\ locations = InitialLocations
  /\ bookings = <<>>
  /\ NoPaymentRows
  /\ pc = [p \in Procs |-> "idle"]
  /\ call = [p \in Procs |-> NoCall]
  /\ tx = [p \in Procs |-> NoTx]
  /\ res = [p \in Procs |-> NoResult]
  /\ ratingBase = [a |-> NullRat, c |-> 0]
  /\ ratingHistory = [i \in 1..MaxTaskers |-> <<>>]

\* the questions an overlapping update carries: a new entry, the stored
\* question
OverlapQuestionInputs == {<<Entry(0, UnsetNumber)>>, <<Entry(1, Given(5))>>}

\* no other call is inside create: the id of a created task is its place
\* in the table
NoOtherCreate(p) == \A q \in Procs \ {p} : pc[q] = "idle" \/ call[q].op # "create"

\* creates, updates and deletes of two callers, interleaved statement by
\* statement
NextTaskWrites ==
  \/ \E p \in Procs :
       NoOtherCreate(p) /\ TaskCreate(p, <<"h">>, <<2, 1>>, <<>>)
  \/ \E p \in Procs : TaskCreateTxFail(p)
  \/ \E p \in Procs : TaskCreateTxTask(p)
  \/ \E p \in Procs : TaskCreateTxQuestions(p)
  \/ \E p \in Procs : TaskCreateTxFaqs(p)
  \/ \E p \in Procs : TaskCreateFindById(p)
  \/ \E p \in Procs : TaskCreateTxCommit(p)
  \/ \E p \in Procs, questions \in OverlapQuestionInputs :
       TaskUpdate(p, 1, Absent, questions, <<>>)
  \/ \E p \in Procs : TaskWriteTxFail(p)
  \/ \E p \in Procs : TaskStatementWaits(p)
  \/ \E p \in Procs : TaskWriteDeadlock(p)
  \/ \E p \in Procs : TaskUpdateTxTask(p)
  \/ \E p \in Procs : TaskUpdateTxDelete(p)
  \/ \E p \in Procs : TaskUpdateTxUpdate(p)
  \/ \E p \in Procs : TaskUpdateTxInsert(p)
  \/ \E p \in Procs : TaskUpdateFindById(p)
  \/ \E p \in Procs : TaskUpdateTxCommit(p)
  \/ \E p \in Procs, id \in 1..2 : TaskDelete(p, id)
  \/ \E p \in Procs : TaskDeleteTxChildren(p)
  \/ \E p \in Procs : TaskDeleteTxTask(p)
  \/ \E p \in Procs : TaskDeleteTxCommit(p)
  \/ \E p \in Procs : Return(p)

SpecTaskWrites == InitTaskWritesConcurrent /\ [][NextTaskWrites]_vars

\* C28: in every committed state every question row and every FAQ row
\* that is stored references a task row that is stored, also when create,
\* update and delete calls on the same task overlap.
C28_NoOrphanedChildren ==
  \A kind \in {"questions", "faqs"} :
    \A c \in DOMAIN ChildTable(kind) :
      ChildTable(kind)[c] # DeletedChild => TaskExists(ChildTable(kind)[c].taskId)

\* a delete of a task was refused by the foreign key because an
\* overlapping update of the task committed a new row first, and the task
\* and the row are stored
C28_Witness ==
  \E p \in Procs, q \in Procs :
    /\ pc[p] = "done" /\ call[p].op = "delete" /\ call[p].failed = "delTask"
    /\ pc[q] = "done" /\ call[q].op = "update" /\ call[q].failed = ""
    /\ call[q].id = call[p].id
    /\ TaskExists(call[p].id)
    /\ \E c \in ChildrenOf("questions", call[p].id) : c > 1

(***************************************************************************)
(* connectDB                                                               *)
(***************************************************************************)
\* the largest number of attempts a caller asks for
MaxAttempts == 4

\* attempts = 5
DefaultAttempts == 5

\* delay = 3000
DefaultDelay == 3000

\* what the call has done so far: "fail" and "ok" for the attempts of
\* pool.connect(), "wait" for each setTimeout(resolve, delay) awaited
Count(log, event) == Len(SelectSeq(log, LAMBDA e : e = event))

\* process.exit(1)
Exited == [outcome |-> "exit", code |-> 1, message |-> <<>>]

\* return true
ReturnedTrue == [OkResult EXCEPT !.message = <<"true">>]

\* the condition of the retry misread as the condition of the loop
RetryAfterFailureAlways(i, attempts) == i < attempts

\* after a failed attempt: i < attempts - 1
RetryAfterFailure(i, attempts) == i < attempts - 1

\* connectDB(attempts, delay) is entered: let i = 0; i < attempts
connectDB(p, attempts, delay) ==
  /\ pc[p] = "idle"
  /\ call' = [call EXCEPT ![p] =
                [op |-> "connectDB", attempts |-> attempts, delay |-> delay,
                 i |-> 0, log |-> <<>>, waited |-> 0]]
  /\ IF 0 < attempts
       THEN pc' = [pc EXCEPT ![p] = "connect"] /\ UNCHANGED res
       ELSE /\ pc' = [pc EXCEPT ![p] = "done"]
            /\ res' = [res EXCEPT ![p] = UndefinedResult]
  /\ UNCHANGED <<tables, tx, history>>

\* await pool.connect() resolves, the client is released and true is
\* returned, or it throws and the catch block waits or exits
ConnectAttempt(p, connected) ==
  /\ pc[p] = "connect"
  /\ call' = [call EXCEPT ![p].log = Append(@, IF connected THEN "ok" ELSE "fail")]
  /\ IF connected
       THEN /\ pc' = [pc EXCEPT ![p] = "done"]
            /\ res' = [res EXCEPT ![p] = ReturnedTrue]
     ELSE IF RetryAfterFailure(call[p].i, call[p].attempts)
       THEN pc' = [pc EXCEPT ![p] = "connectWait"] /\ UNCHANGED res
     ELSE /\ pc' = [pc EXCEPT ![p] = "exited"]
          /\ res' = [res EXCEPT ![p] = Exited]
  /\ UNCHANGED <<tables, tx, history>>

\* the timer of setTimeout(resolve, delay) fires; i++, i < attempts
ConnectWait(p) ==
  /\ pc[p] = "connectWait"
  /\ call' = [call EXCEPT ![p].log = Append(@, "wait"),
                          ![p].waited = @ + call[p].delay,
                          ![p].i = @ + 1]
  /\ IF call[p].i + 1 < call[p].attempts
       THEN pc' = [pc EXCEPT ![p] = "connect"] /\ UNCHANGED res
       ELSE /\ pc' = [pc EXCEPT ![p] = "done"]
            /\ res' = [res EXCEPT ![p] = UndefinedResult]
  /\ UNCHANGED <<tables, tx, history>>

InitConnectDB == InitTaskCreate

\* the server calls connectDB once, when it starts
NextConnectDB ==
  \/ \E p \in SeqProcs, attempts \in (0..MaxAttempts) \cup {DefaultAttempts},
        delay \in {0, 1000, DefaultDelay} : connectDB(p, attempts, delay)
  \/ \E p \in SeqProcs, connected \in BOOLEAN : ConnectAttempt(p, connected)
  \/ \E p \in SeqProcs : ConnectWait(p)

SpecConnectDB == InitConnectDB /\ [][NextConnectDB]_vars

\* the awaited promise of pool.connect() settles and the timer fires
SpecConnectDBFair == SpecConnectDB /\ WF_vars(NextConnectDB)

\* a connectDB call is in progress or has ended
InConnectDB(p) == pc[p] # "idle" /\ call[p].op = "connectDB"

\* C22: a call to the store is attempted once, also the connection of
\* connectDB: no call makes a second attempt after a failed one.
C22_AttemptedOnce ==
  \A p \in Procs :
    InConnectDB(p) => Count(call[p].log, "fail") + Count(call[p].log, "ok") <= 1

\* C30: connectDB(attempts, delay) with attempts >= 1 makes at most
\* attempts connection attempts; a successful attempt is the last and
\* true is returned; a failed attempt that is not the attempts-th is
\* followed by one wait of delay and then another attempt; the attempts-th
\* failure is followed by no wait and the process exits with code 1; and
\* the call always ends.
C30_Bounded ==
  \A p \in Procs :
    (InConnectDB(p) /\ call[p].attempts >= 1) =>
      LET log == call[p].log
          fails == Count(log, "fail")
      IN /\ fails + Count(log, "ok") <= call[p].attempts
         /\ call[p].waited = call[p].delay * Count(log, "wait")
         /\ \A k \in DOMAIN log :
              /\ log[k] = "ok" =>
                   k = Len(log) /\ pc[p] = "done" /\ res[p] = ReturnedTrue
              /\ (log[k] = "fail" /\ k < Len(log)) => log[k + 1] = "wait"
              /\ log[k] = "wait" =>
                   /\ k > 1 /\ log[k - 1] = "fail"
                   /\ IF k < Len(log) THEN log[k + 1] \in {"ok", "fail"}
                                      ELSE pc[p] = "connect"
         /\ (log # <<>> /\ log[Len(log)] = "fail") =>
              IF fails = call[p].attempts
                THEN pc[p] = "exited" /\ res[p] = Exited
                ELSE pc[p] = "connectWait"
         /\ pc[p] = "exited" => fails = call[p].attempts
         /\ pc[p] = "done" => Count(log, "ok") = 1

C30_ConnectTerminates ==
  /\ []C30_Bounded
  /\ \A p \in SeqProcs :
       (InConnectDB(p) /\ call[p].attempts >= 1) ~> (pc[p] \in {"done", "exited"})

\* three attempts failed with a wait of delay after the first and after
\* the second, and the process has exited with code 1
C30_Witness ==
  \E p \in Procs :
    /\ InConnectDB(p)
    /\ call[p].attempts = 3
    /\ call[p].delay = DefaultDelay
    /\ call[p].log = <<"fail", "wait", "fail", "wait", "fail">>
    /\ call[p].waited = 2 * DefaultDelay
    /\ pc[p] = "exited"
    /\ res[p].code = 1

(***************************************************************************)
(* bookingService.findAll, bookingService.count, getUserBookings           *)
(***************************************************************************)
\* a bookings row with the columns the search reads
UserBooking(userId, taskerId, taskId, status, paymentStatus, startDay, totalPrice) ==
  [userId |-> userId, taskerId |-> taskerId, taskId |-> taskId, status |-> status,
   paymentStatus |-> paymentStatus, startDay |-> startDay, createdDay |-> startDay,
   totalPrice |-> totalPrice]

\* status and paymentStatus of a request: missing, one string, an array
NoList == [set |-> FALSE, array |-> FALSE, v |-> <<>>]

One(word) == [set |-> TRUE, array |-> FALSE, v |-> <<word>>]

Several(words) == [set |-> TRUE, array |-> TRUE, v |-> words]

\* BookingSearchParams with nothing supplied
NoBookingParams ==
  [userId |-> UnsetNumber, taskerId |-> UnsetNumber, taskId |-> UnsetNumber,
   status |-> NoList, paymentStatus |-> NoList, startDateFrom |-> UnsetNumber,
   startDateTo |-> UnsetNumber, sort |-> UnsetWord, order |-> UnsetWord,
   page |-> UnsetNumber, limit |-> UnsetNumber]

\* the .where() calls findAll and count make on the query, in their order
bookingWheres(params) ==
  SelectSeq(<<"userId", "taskerId", "taskId", "status", "paymentStatus", "startDate">>,
            LAMBDA c :
              \/ c = "userId" /\ TruthyNumber(params.userId)
              \/ c = "taskerId" /\ TruthyNumber(params.taskerId)
              \/ c = "taskId" /\ TruthyNumber(params.taskId)
              \/ c = "status" /\ params.status.set /\ params.status.array
              \/ c = "paymentStatus" /\ params.paymentStatus.set
              \/ c = "startDate" /\ params.startDateFrom.set /\ params.startDateTo.set)

\* every .where() joined with and
bookingWhereAll(params) == Range(bookingWheres(params))

\* the where clause of the query sent: each .where() call on a dynamic
\* query replaces the clause set by the call before
bookingWhere(params) ==
  IF bookingWheres(params) = <<>> THEN {}
  ELSE {bookingWheres(params)[Len(bookingWheres(params))]}

\* status.map((s) => `'${s}'`).join(", "), as the pieces of the text
RECURSIVE QuotedList(_)
QuotedList(words) ==
  IF words = <<>> THEN <<>>
  ELSE IF Len(words) = 1 THEN <<"'", words[1], "'">>
  ELSE <<"'", words[1], "'", ", ">> \o QuotedList(Tail(words))

\* one condition on a bookings row; the status list is bound as one text
\* parameter, in ($1)
BookingConditionHolds(c, params, b) ==
  CASE c = "userId" -> b.userId = params.userId.v
    [] c = "taskerId" -> b.taskerId = params.taskerId.v
    [] c = "taskId" -> b.taskId = params.taskId.v
    [] c = "status" -> <<b.status>> = QuotedList(params.status.v)
    [] c = "paymentStatus" ->
         IF params.paymentStatus.array
           THEN b.paymentStatus \in Range(params.paymentStatus.v)
           ELSE b.paymentStatus = params.paymentStatus.v[1]
    [] c = "startDate" ->
         params.startDateFrom.v <= b.startDay /\ b.startDay <= params.startDateTo.v

\* the ids of the rows the query matches
BookingMatches(params) ==
  {i \in DOMAIN bookings :
     \A c \in bookingWhere(params) : BookingConditionHolds(c, params, bookings[i])}

\* sortColumnMap
sortColumnMap == {"startTime", "createdAt", "totalAmount"}

BookingSortKey(sort, b) ==
  CASE sort = "startTime" -> b.startDay
    [] sort = "createdAt" -> b.createdDay
    [] sort = "totalAmount" -> b.totalPrice

\* the orders the store may return the matched rows in: by the sort column
\* when sort and order are given and the column is known, any order
\* otherwise and among equal keys
BookingOrders(params) ==
  {seq \in Orderings(BookingMatches(params)) :
     (params.sort.v # "" /\ params.order.v # "" /\ params.sort.v \in sortColumnMap) =>
       \A i, j \in DOMAIN seq :
         i < j =>
           IF params.order.v = "asc"
             THEN BookingSortKey(params.sort.v, bookings[seq[i]])
                    <= BookingSortKey(params.sort.v, bookings[seq[j]])
             ELSE BookingSortKey(params.sort.v, bookings[seq[i]])
                    >= BookingSortKey(params.sort.v, bookings[seq[j]])}

\* limit(limit).offset((page - 1) * limit) when page and limit are given
BookingPage(params, seq) ==
  IF TruthyNumber(params.page) /\ TruthyNumber(params.limit)
    THEN Slice(seq, params.page.v, params.limit.v)
    ELSE seq

\* the rows returned, each with its id
BookingRows(ids) == [i \in DOMAIN ids |-> [id |-> ids[i], row |-> bookings[ids[i]]]]

\* bookingService.findAll(params)
BookingFindAll(p, params) ==
  /\ pc[p] = "idle"
  /\ pc' = [pc EXCEPT ![p] = "done"]
  /\ call' = [call EXCEPT ![p] = [op |-> "findAllBookings", params |-> params]]
  /\ \E seq \in BookingOrders(params) :
       res' = [res EXCEPT ![p] =
                 [outcome |-> "ok", code |-> 200, message |-> <<>>,
                  rows |-> BookingRows(BookingPage(params, seq)), total |-> 0]]
  /\ UNCHANGED <<tables, tx, history>>

\* page = "1", limit = "20"
DefaultBookingPage == 1

DefaultBookingLimit == 20

\* getUserBookings: the search parameters built from req.user.id and
\* req.query, or 401
GetUserBookings(p, user, query) ==
  /\ pc[p] = "idle"
  /\ call' = [call EXCEPT ![p] =
                [op |-> "getUserBookings",
                 params |-> [query EXCEPT
                               !.userId = [set |-> TRUE, v |-> user],
                               !.page = IF query.page.set THEN query.page
                                        ELSE [set |-> TRUE, v |-> DefaultBookingPage],
                               !.limit = IF query.limit.set THEN query.limit
                                         ELSE [set |-> TRUE, v |-> DefaultBookingLimit]],
                 total |-> 0]]
  /\ IF user = 0
       THEN /\ pc' = [pc EXCEPT ![p] = "done"]
            /\ res' = [res EXCEPT ![p] = AppError("Authentication required", 401)]
       ELSE /\ pc' = [pc EXCEPT ![p] = "bookingsCount"]
            /\ UNCHANGED res
  /\ UNCHANGED <<tables, tx, history>>

\* bookingService.count(countParams)
GetUserBookingsCount(p) ==
  /\ pc[p] = "bookingsCount"
  /\ pc' = [pc EXCEPT ![p] = "bookingsFindAll"]
  /\ call' = [call EXCEPT ![p].total = Cardinality(BookingMatches(call[p].params))]
  /\ UNCHANGED <<tables, tx, res, history>>

\* bookingService.findAll(searchParams) and the response
GetUserBookingsFindAll(p) ==
  /\ pc[p] = "bookingsFindAll"
  /\ pc' = [pc EXCEPT ![p] = "done"]
  /\ \E seq \in BookingOrders(call[p].params) :
       res' = [res EXCEPT ![p] =
                 [outcome |-> "ok", code |-> 200, message |-> <<>>,
                  rows |-> BookingRows(BookingPage(call[p].params, seq)),
                  total |-> call[p].total]]
  /\ UNCHANGED <<tables, tx, call, history>>

\* four bookings of two users
StoredBookings ==
  <<UserBooking(1, 1, 1, "pending", "unpaid", 1, 10),
    UserBooking(1, 2, 1, "confirmed", "paid", 2, 20),
    UserBooking(2, 1, 1, "pending", "paid", 2, 10),
    UserBooking(2, 2, 2, "completed", "refunded", 3, 30)>>

\* the filters requests carry besides the user
BookingQueryInputs ==
  {[NoBookingParams EXCEPT !.status = st, !.paymentStatus = ps,
                           !.startDateFrom = d[1], !.startDateTo = d[2],
                           !.sort = so[1], !.order = so[2],
                           !.page = pg[1], !.limit = pg[2]] :
     st \in {NoList, One("pending"), Several(<<"pending", "confirmed">>)},
     ps \in {NoList, One("paid"), Several(<<"paid", "refunded">>)},
     d \in {<<UnsetNumber, UnsetNumber>>, <<[set |-> TRUE, v |-> 2], UnsetNumber>>,
            <<[set |-> TRUE, v |-> 2], [set |-> TRUE, v |-> 3]>>},
     so \in {<<UnsetWord, UnsetWord>>, <<[set |-> TRUE, v |-> "startTime"], [set |-> TRUE, v |-> "asc"]>>,
             <<[set |-> TRUE, v |-> "totalAmount"], [set |-> TRUE, v |-> "desc"]>>},
     pg \in {<<UnsetNumber, UnsetNumber>>, <<[set |-> TRUE, v |-> 1], [set |-> TRUE, v |-> 2]>>}}

\* the parameters findAll is called with
BookingParamInputs ==
  {[q EXCEPT !.userId = u, !.taskerId = t, !.taskId = k] :
     q \in BookingQueryInputs, u \in {UnsetNumber, [set |-> TRUE, v |-> 1]},
     t \in {UnsetNumber, [set |-> TRUE, v |-> 1]},
     k \in {UnsetNumber, [set |-> TRUE, v |-> 1]}}

InitBookings ==
  /\ verifications = <<>>
  /\ verificationLogs = <<>>
  /\ taskers = InitialTaskers
  /\ taskerSkills = <<>>
  /\ services = InitialServices
  /\ serviceCategories = <<>>
  /\ taskerPortfolio = <<>>
  /\ NoTaskRows
  /\ locations = InitialLocations
  /\ bookings = StoredBookings
  /\ NoPaymentRows
  /\ pc = [p \in Procs |-> "idle"]
  /\ call = [p \in Procs |-> NoCall]
  /\ tx = [p \in Procs |-> NoTx]
  /\ res = [p \in Procs |-> NoResult]
  /\ ratingBase = [a |-> NullRat, c |-> 0]
  /\ ratingHistory = [i \in 1..MaxTaskers |-> <<>>]

NextBookings ==
  \/ \E p \in SeqProcs, params \in BookingParamInputs : BookingFindAll(p, params)
  \/ \E p \in SeqProcs, user \in 0..2, query \in BookingQueryInputs :
       GetUserBookings(p, user, query)
  \/ \E p \in SeqProcs : GetUserBookingsCount(p)
  \/ \E p \in SeqProcs : GetUserBookingsFindAll(p)
  \/ \E p \in SeqProcs : Return(p)

SpecBookings == InitBookings /\ [][NextBookings]_vars

\* C24: every booking findAll returns satisfies every filter supplied; in
\* particular, when userId is supplied, every booking returned, also to
\* getUserBookings, is a booking of that user.
C24_AllFiltersApply ==
  \A p \in Procs :
    (pc[p] = "done" /\ call[p].op \in {"findAllBookings", "getUserBookings"}
       /\ res[p].outcome = "ok") =>
      \A i \in DOMAIN res[p].rows :
        \A c \in bookingWhereAll(call[p].params) :
          BookingConditionHolds(c, call[p].params, res[p].rows[i].row)

(***************************************************************************)
(* PaymentService.processRefund, verifyPayment, the payment webhook        *)
(***************************************************************************)
\* the most refund requests a run sends to the gateway before new
\* processRefund calls stop being made
MaxRefunds == 2

\* the tables no PaymentService statement touches
notPaymentTables == <<verifications, verificationLogs, taskers, taskerSkills, services,
                      serviceCategories, taskerPortfolio, tasks, taskQuestions,
                      taskFaqs, locations, history>>

\* a payments row: booking, status, reference, and the refund recorded
PaymentRow(bookingId, status, paymentIntentId) ==
  [bookingId |-> bookingId, status |-> status, paymentIntentId |-> paymentIntentId,
   transactionId |-> paymentIntentId, refundAmount |-> UnsetNumber]

\* processRefund is entered: getPaymentById and the two checks
processRefund(p, paymentId, amount) ==
  /\ pc[p] = "idle"
  /\ Len(refunds) < MaxRefunds
  /\ call' = [call EXCEPT ![p] =
                [op |-> "processRefund", id |-> paymentId, amount |-> amount,
                 reference |-> "", webhook |-> FALSE]]
  /\ IF paymentId \notin DOMAIN payments
       THEN /\ pc' = [pc EXCEPT ![p] = "done"]
            /\ res' = [res EXCEPT ![p] = AppError("Payment not found", 404)]
     ELSE IF payments[paymentId].status # "succeeded"
       THEN /\ pc' = [pc EXCEPT ![p] = "done"]
            /\ res' = [res EXCEPT ![p] =
                         AppError("Cannot refund a payment that has not succeeded", 400)]
     ELSE pc' = [pc EXCEPT ![p] = "refundGateway"] /\ UNCHANGED res
  /\ UNCHANGED <<tables, tx, history>>

\* paystackService.createRefund: the gateway receives the request and
\* accepts it or not
RefundGateway(p, accepted) ==
  /\ pc[p] = "refundGateway"
  /\ refunds' = Append(refunds, [payment |-> call[p].id, amount |-> call[p].amount,
                                 accepted |-> accepted])
  /\ IF accepted
       THEN pc' = [pc EXCEPT ![p] = "refundPayment"] /\ UNCHANGED res
       ELSE /\ pc' = [pc EXCEPT ![p] = "done"]
            /\ res' = [res EXCEPT ![p] = AppError("Refund processing failed", 500)]
  /\ UNCHANGED <<notPaymentTables, bookings, payments, paymentMethods, tx, call>>

\* db.update(payments).set({refundAmount, status: "refunded"}).where(id)
RefundUpdatePayment(p) ==
  /\ pc[p] = "refundPayment"
  /\ pc' = [pc EXCEPT ![p] = "refundBooking"]
  /\ payments' = [payments EXCEPT ![call[p].id] =
                    [@ EXCEPT !.status = "refunded",
                              !.refundAmount = [set |-> TRUE, v |-> call[p].amount]]]
  /\ UNCHANGED <<notPaymentTables, bookings, paymentMethods, refunds, tx, call, res>>

\* db.update(bookings).set({paymentStatus: "refunded"}), return result[0]
RefundUpdateBooking(p) ==
  /\ pc[p] = "refundBooking"
  /\ pc' = [pc EXCEPT ![p] = "done"]
  /\ bookings' = [b \in DOMAIN bookings |->
                    IF b = payments[call[p].id].bookingId
                      THEN [bookings[b] EXCEPT !.paymentStatus = "refunded"]
                      ELSE bookings[b]]
  /\ res' = [res EXCEPT ![p] = OkResult]
  /\ UNCHANGED <<notPaymentTables, payments, paymentMethods, refunds, tx, call>>

\* how a verifyPayment call ends with an error: thrown to the caller, or
\* caught and logged by handleSuccessfulPayment
VerifyFailure(p, error) == IF call[p].webhook THEN OkResult ELSE error

\* verifyPayment(reference), called by a client or by handleSuccessfulPayment
\* for a charge.success event: paystackService.verifyTransaction
verifyPayment(p, reference, webhook, success) ==
  /\ pc[p] = "idle"
  /\ call' = [call EXCEPT ![p] =
                [op |-> "verifyPayment", id |-> 0, amount |-> 0,
                 reference |-> reference, webhook |-> webhook]]
  /\ IF success
       THEN pc' = [pc EXCEPT ![p] = "verifySelect"] /\ UNCHANGED res
       ELSE /\ pc' = [pc EXCEPT ![p] = "done"]
            /\ res' = [res EXCEPT ![p] =
                         IF webhook THEN OkResult
                         ELSE AppError("Payment verification failed", 400)]
  /\ UNCHANGED <<tables, tx, history>>

\* select from payments where paymentIntentId = reference limit 1
VerifySelectPayment(p) ==
  /\ pc[p] = "verifySelect"
  /\ LET found == {i \in DOMAIN payments :
                     payments[i].paymentIntentId = call[p].reference}
     IN IF found = {}
          THEN /\ pc' = [pc EXCEPT ![p] = "done"]
               /\ res' = [res EXCEPT ![p] =
                            VerifyFailure(p, AppError("Payment not found", 404))]
               /\ UNCHANGED call
          ELSE /\ pc' = [pc EXCEPT ![p] = "verifyPayment"]
               /\ \E i \in found : call' = [call EXCEPT ![p].id = i]
               /\ UNCHANGED res
  /\ UNCHANGED <<tables, tx, history>>

\* updatePaymentStatus(payment.id, "succeeded", reference): the update of
\* the payments row, whatever its status
updatePaymentStatus(p) ==
  /\ pc[p] = "verifyPayment"
  /\ IF call[p].id \in DOMAIN payments
       THEN /\ pc' = [pc EXCEPT ![p] = "verifyBooking"]
            /\ payments' = [payments EXCEPT ![call[p].id] =
                              [@ EXCEPT !.status = "succeeded",
                                        !.transactionId = call[p].reference]]
            /\ UNCHANGED res
       ELSE /\ pc' = [pc EXCEPT ![p] = "done"]
            /\ res' = [res EXCEPT ![p] =
                         VerifyFailure(p, AppError("Failed to update payment status", 500))]
            /\ UNCHANGED payments
  /\ UNCHANGED <<notPaymentTables, bookings, paymentMethods, refunds, tx, call>>

\* updatePaymentStatus: bookings.paymentStatus = "paid"; the payment is
\* returned
UpdatePaymentStatusBooking(p) ==
  /\ pc[p] = "verifyBooking"
  /\ pc' = [pc EXCEPT ![p] = "done"]
  /\ bookings' = [b \in DOMAIN bookings |->
                    IF b = payments[call[p].id].bookingId
                      THEN [bookings[b] EXCEPT !.paymentStatus = "paid"]
                      ELSE bookings[b]]
  /\ res' = [res EXCEPT ![p] = OkResult]
  /\ UNCHANGED <<notPaymentTables, payments, paymentMethods, refunds, tx, call>>

\* a paid booking with its succeeded payment, a booking whose payment is
\* pending
InitPayments ==
  /\ verifications = <<>>
  /\ verificationLogs = <<>>
  /\ taskers = InitialTaskers
  /\ taskerSkills = <<>>
  /\ services = InitialServices
  /\ serviceCategories = <<>>
  /\ taskerPortfolio = <<>>
  /\ NoTaskRows
  /\ locations = InitialLocations
  /\ bookings = <<UserBooking(1, 1, 1, "confirmed", "paid", 1, 10),
                  UserBooking(2, 1, 1, "pending", "processing", 2, 10)>>
  /\ payments = <<PaymentRow(1, "succeeded", "ref1"), PaymentRow(2, "pending", "ref2")>>
  /\ paymentMethods = <<>>
  /\ refunds = <<>>
  /\ pc = [p \in Procs |-> "idle"]
  /\ call = [p \in Procs |-> NoCall]
  /\ tx = [p \in Procs |-> NoTx]
  /\ res = [p \in Procs |-> NoResult]
  /\ ratingBase = [a |-> NullRat, c |-> 0]
  /\ ratingHistory = [i \in 1..MaxTaskers |-> <<>>]

\* refunds, verifications and webhook deliveries of two callers,
\* interleaved statement by statement
NextPayments ==
  \/ \E p \in Procs, paymentId \in 1..3 : processRefund(p, paymentId, 10)
  \/ \E p \in Procs, accepted \in BOOLEAN : RefundGateway(p, accepted)
  \/ \E p \in Procs : RefundUpdatePayment(p)
  \/ \E p \in Procs : RefundUpdateBooking(p)
  \/ \E p \in Procs, reference \in {"ref1", "ref3"}, webhook \in BOOLEAN,
        success \in BOOLEAN : verifyPayment(p, reference, webhook, success)
  \/ \E p \in Procs : VerifySelectPayment(p)
  \/ \E p \in Procs : updatePaymentStatus(p)
  \/ \E p \in Procs : UpdatePaymentStatusBooking(p)
  \/ \E p \in Procs : Return(p)

SpecPayments == InitPayments /\ [][NextPayments]_vars

\* C25: a processRefund call reaches the refund call of the gateway only
\* for a payment no processRefund has recorded a refund of, whatever
\* processRefund, verifyPayment and webhook calls came before or overlap.
C25_RefundedOnce ==
  [][\A p \in Procs :
       (pc[p] = "refundGateway" /\ pc'[p] # "refundGateway") =>
         ~payments[call[p].id].refundAmount.set]_vars

(***************************************************************************)
(* PaymentService: payment methods                                         *)
(***************************************************************************)
\* the most payment_methods rows ever inserted
MaxMethods == 3

\* a payment_methods row
MethodRow(userId, isDefault) == [userId |-> userId, isDefault |-> isDefault]

\* the place of a deleted row: ids are not used again
DeletedMethod == MethodRow(0, FALSE)

\* createPaymentMethod is entered: if (paymentMethodData.isDefault)
createPaymentMethod(p, userId, isDefault) ==
  /\ pc[p] = "idle"
  /\ Len(paymentMethods) < MaxMethods
  /\ call' = [call EXCEPT ![p] =
                [op |-> "createPaymentMethod", id |-> 0, userId |-> userId,
                 isDefault |-> [set |-> TRUE, v |-> isDefault]]]
  /\ pc' = [pc EXCEPT ![p] = IF isDefault THEN "methodUnset" ELSE "methodInsert"]
  /\ UNCHANGED <<tables, tx, res, history>>

\* update payment_methods set isDefault = false where userId = ... and
\* isDefault = true
MethodUnsetDefault(p) ==
  /\ pc[p] = "methodUnset"
  /\ paymentMethods' =
       [i \in DOMAIN paymentMethods |->
          IF paymentMethods[i].userId = call[p].userId /\ paymentMethods[i].isDefault
            THEN [paymentMethods[i] EXCEPT !.isDefault = FALSE]
            ELSE paymentMethods[i]]
  /\ pc' = [pc EXCEPT ![p] = IF call[p].op = "createPaymentMethod"
                              THEN "methodInsert" ELSE "methodUpdate"]
  /\ UNCHANGED <<notPaymentTables, bookings, payments, refunds, tx, call, res>>

\* db.insert(paymentMethods).values(paymentMethodData).returning()
MethodInsert(p) ==
  /\ pc[p] = "methodInsert"
  /\ paymentMethods' =
       Append(paymentMethods, MethodRow(call[p].userId, call[p].isDefault.v))
  /\ pc' = [pc EXCEPT ![p] = "done"]
  /\ res' = [res EXCEPT ![p] = OkResult]
  /\ UNCHANGED <<notPaymentTables, bookings, payments, refunds, tx, call>>

\* updatePaymentMethod(id, data) is entered: if (data.isDefault)
updatePaymentMethod(p, id, isDefault) ==
  /\ pc[p] = "idle"
  /\ call' = [call EXCEPT ![p] =
                [op |-> "updatePaymentMethod", id |-> id, userId |-> 0,
                 isDefault |-> isDefault]]
  /\ pc' = [pc EXCEPT ![p] = IF isDefault.set /\ isDefault.v THEN "methodFind"
                              ELSE "methodUpdate"]
  /\ UNCHANGED <<tables, tx, res, history>>

\* getPaymentMethodById(id); if (paymentMethod)
MethodFind(p) ==
  /\ pc[p] = "methodFind"
  /\ IF call[p].id \in DOMAIN paymentMethods /\ paymentMethods[call[p].id] # DeletedMethod
       THEN /\ pc' = [pc EXCEPT ![p] = "methodUnset"]
            /\ call' = [call EXCEPT ![p].userId = paymentMethods[call[p].id].userId]
       ELSE /\ pc' = [pc EXCEPT ![p] = "methodUpdate"]
            /\ UNCHANGED call
  /\ UNCHANGED <<tables, tx, res, history>>

\* db.update(paymentMethods).set({...data}).where(id).returning()
MethodUpdate(p) ==
  /\ pc[p] = "methodUpdate"
  /\ pc' = [pc EXCEPT ![p] = "done"]
  /\ IF call[p].id \in DOMAIN paymentMethods /\ paymentMethods[call[p].id] # DeletedMethod
       THEN /\ paymentMethods' =
                 [paymentMethods EXCEPT ![call[p].id].isDefault =
                    IF call[p].isDefault.set THEN call[p].isDefault.v ELSE @]
            /\ res' = [res EXCEPT ![p] = OkResult]
       ELSE /\ res' = [res EXCEPT ![p] = UndefinedResult]
            /\ UNCHANGED paymentMethods
  /\ UNCHANGED <<notPaymentTables, bookings, payments, refunds, tx, call>>

\* deletePaymentMethod(id): result.length > 0
deletePaymentMethod(p, id) ==
  /\ pc[p] = "idle"
  /\ pc' = [pc EXCEPT ![p] = "done"]
  /\ call' = [call EXCEPT ![p] =
                [op |-> "deletePaymentMethod", id |-> id, userId |-> 0,
                 isDefault |-> UnsetFlag]]
  /\ IF id \in DOMAIN paymentMethods /\ paymentMethods[id] # DeletedMethod
       THEN /\ paymentMethods' = [paymentMethods EXCEPT ![id] = DeletedMethod]
            /\ res' = [res EXCEPT ![p] = [OkResult EXCEPT !.message = <<"true">>]]
       ELSE /\ res' = [res EXCEPT ![p] = [OkResult EXCEPT !.message = <<"false">>]]
            /\ UNCHANGED paymentMethods
  /\ UNCHANGED <<notPaymentTables, bookings, payments, refunds, tx>>

\* user 1 has a default payment method and another one
InitPaymentMethods ==
  /\ verifications = <<>>
  /\ verificationLogs = <<>>
  /\ taskers = InitialTaskers
  /\ taskerSkills = <<>>
  /\ services = InitialServices
  /\ serviceCategories = <<>>
  /\ taskerPortfolio = <<>>
  /\ NoTaskRows
  /\ locations = InitialLocations
  /\ bookings = <<>>
  /\ payments = <<>>
  /\ paymentMethods = <<MethodRow(1, TRUE), MethodRow(1, FALSE)>>
  /\ refunds = <<>>
  /\ pc = [p \in Procs |-> "idle"]
  /\ call = [p \in Procs |-> NoCall]
  /\ tx = [p \in Procs |-> NoTx]
  /\ res = [p \in Procs |-> NoResult]
  /\ ratingBase = [a |-> NullRat, c |-> 0]
  /\ ratingHistory = [i \in 1..MaxTaskers |-> <<>>]

\* the calls of two callers, interleaved statement by statement
NextPaymentMethods ==
  \/ \E p \in Procs, userId \in 1..2, isDefault \in BOOLEAN :
       createPaymentMethod(p, userId, isDefault)
  \/ \E p \in Procs : MethodUnsetDefault(p)
  \/ \E p \in Procs : MethodInsert(p)
  \/ \E p \in Procs, id \in 1..MaxMethods,
        isDefault \in {UnsetFlag, [set |-> TRUE, v |-> TRUE], [set |-> TRUE, v |-> FALSE]} :
       updatePaymentMethod(p, id, isDefault)
  \/ \E p \in Procs : MethodFind(p)
  \/ \E p \in Procs : MethodUpdate(p)
  \/ \E p \in Procs, id \in 1..MaxMethods : deletePaymentMethod(p, id)
  \/ \E p \in Procs : Return(p)

SpecPaymentMethods == InitPaymentMethods /\ [][NextPaymentMethods]_vars

\* C29: in every state each user has at most one payment method with
\* isDefault = true, also when calls for the same user overlap.
C29_OneDefaultPerUser ==
  \A u \in 1..2 :
    Cardinality({i \in DOMAIN paymentMethods :
                   paymentMethods[i].userId = u /\ paymentMethods[i].isDefault}) <= 1

====
